---- MODULE Spec2Model ----
(***************************************************************************)
(* TLS/HTTP fingerprint core of go-gost-x: JA3 codec, ClientHello spec     *)
(* builder, LRU spec cache, global cache singleton, fingerprinted TLS      *)
(* dial/upgrade.  Strings that the code parses are sequences of one-       *)
(* character strings, one per byte; names (paths, profile names, server    *)
(* names) are TLA+ strings, one character per byte.  The calls that        *)
(* goroutines make on shared objects are taken step by step, a step ending *)
(* where the call next touches what is shared or blocks.                   *)
(***************************************************************************)
EXTENDS Integers, Sequences, FiniteSets, TLC

VARIABLES
    bIn,             \* builder input: [data: JA3Data, serverName]
    bOut,            \* builder output: a ClientHelloSpec, or Nil before the call;
                     \* in the dialers, the number of ClientHelloSpec objects built;
                     \* in SpecCache, the keys whose entry an expiring Get removed
                     \* with no Set storing under them since
    lru,             \* a private LRUCache object (NewLRUCache); in the dialers, the
                     \* LRUCache objects built so far, by address
    now,             \* the clock (time.Now), in ticks
    lastOp,          \* the call on lru that started last
    run,             \* ghost: the Set-only run since the cache was created empty
                     \* (SpecCache); the entries that left the cache (SpecConcurrent);
                     \* the cache an InitGlobalCache under way has built (SpecParse)
    globalCache,     \* package variable globalCache: Nil or an LRUCache; in the
                     \* dialers the address of one in lru, 0 for nil
    onceDone,        \* globalCacheOnce has fired
    file,            \* the one file on disk: [exists, kind, ver, mtime]
    cfg,             \* the caller's TLSDialerConfig; in SpecHTTP2 the caller's
                     \* http2.Transport
    last,            \* the dial/upgrade/parse call that returned last and its outcome;
                     \* in SpecCache what the Get that returned last returned
    nops,            \* operations performed so far (bounds the behaviour)
    everSet,         \* history: the keys Set has been called with
    threads          \* the calls in progress on the goroutines: each one's position and locals

vars == <<bIn, bOut, lru, now, lastOp, run, globalCache, onceDone, file, cfg, last, nops,
          everSet, threads>>

\* The nil pointer / absent value (a record, so that it compares with records).
Nil == [nil |-> TRUE]

(***************************************************************************)
(* Bounds of the model.                                                    *)
(***************************************************************************)
MaxExtLen == 2       \* longest JA3 extension list drawn for the builder
MaxCipherLen == 2    \* longest JA3 cipher list drawn for the builder
MaxOps == 4          \* parser calls, file writes and clock advances in one behaviour
MaxCalls == 2        \* dial/upgrade calls in one behaviour
TicksPerSecond == 2  \* clock ticks in one second of file modification time
MaxDescLen == 3      \* longest extension array of a drawn JSON descriptor
MaxFields == 6       \* most fields of a drawn JA3 string
LongLen == 300       \* length of the long id lists drawn for the JA4 counts
MaxConfigs == 3      \* calls on one http2.Transport in one behaviour

(***************************************************************************)
(* Small helpers.                                                          *)
(***************************************************************************)
SeqsUpTo(S, n) == UNION {[1..k -> S] : k \in 0..n}

Range(s) == {s[i] : i \in 1..Len(s)}

\* F applied to the value of x, with x evaluated once
With(x, F(_)) == CHOOSE r \in {F(v) : v \in {x}} : TRUE

(***************************************************************************)
(* strings.Split(s, sep) for a one-character separator: always returns     *)
(* (number of separators + 1) parts; Split("", sep) is one empty part.     *)
(***************************************************************************)
RECURSIVE SplitFrom(_, _, _)
\* the parts of s from index start on
SplitFrom(s, sep, start) ==
    IF \A i \in start..Len(s) : s[i] # sep THEN <<SubSeq(s, start, Len(s))>>
    ELSE With(CHOOSE i \in start..Len(s) :
                  s[i] = sep /\ \A j \in start..(i - 1) : s[j] # sep,
              LAMBDA m : <<SubSeq(s, start, m - 1)>> \o SplitFrom(s, sep, m + 1))

Split(s, sep) == With(s, LAMBDA v : SplitFrom(v, sep, 1))

(***************************************************************************)
(* strconv.ParseUint(s, 10, bitSize): the empty string, any character that *)
(* is not a decimal digit (signs and underscores included) and a value     *)
(* above 2^bitSize - 1 are errors.                                         *)
(***************************************************************************)
Digits == {"0", "1", "2", "3", "4", "5", "6", "7", "8", "9"}

DigitVal(c) ==
    CASE c = "0" -> 0 [] c = "1" -> 1 [] c = "2" -> 2 [] c = "3" -> 3
      [] c = "4" -> 4 [] c = "5" -> 5 [] c = "6" -> 6 [] c = "7" -> 7
      [] c = "8" -> 8 [] c = "9" -> 9

RECURSIVE ParseUintAcc(_, _, _, _)
ParseUintAcc(s, i, acc, max) ==
    IF i > Len(s) THEN [ok |-> TRUE, val |-> acc]
    ELSE IF s[i] \notin Digits THEN [ok |-> FALSE, val |-> 0]
    ELSE With(acc * 10 + DigitVal(s[i]),
              LAMBDA n : IF n > max THEN [ok |-> FALSE, val |-> max]
                         ELSE ParseUintAcc(s, i + 1, n, max))

\* A ParseUint without the range error: the value is reduced to the width.
ParseUintWrapping(s, bitSize) ==
    IF Len(s) = 0 THEN [ok |-> FALSE, val |-> 0]
    ELSE With(ParseUintAcc(s, 1, 0, 2 ^ 20),
              LAMBDA v : [ok |-> v.ok, val |-> v.val % (2 ^ bitSize)])

ParseUint(s, bitSize) ==
    IF Len(s) = 0 THEN [ok |-> FALSE, val |-> 0]
    ELSE With(s, LAMBDA v : ParseUintAcc(v, 1, 0, 2 ^ bitSize - 1))

(***************************************************************************)
(* One '-'-separated JA3 field (the loops of ParseJA3): the empty field is *)
(* the empty list; the first token that does not parse fails the field.    *)
(***************************************************************************)
ParseTokens(toks, bitSize) ==
    With(SubSeq([i \in 1..Len(toks) |-> ParseUint(toks[i], bitSize)], 1, Len(toks)),
         LAMBDA v : IF \E i \in 1..Len(toks) : ~v[i].ok
                    THEN [ok |-> FALSE, vals |-> <<>>]
                    ELSE [ok |-> TRUE, vals |-> [i \in 1..Len(toks) |-> v[i].val]])

ParseField(part, bitSize) ==
    IF part = <<>> THEN [ok |-> TRUE, vals |-> <<>>]
    ELSE With(Split(part, "-"), LAMBDA toks : ParseTokens(toks, bitSize))

(***************************************************************************)
(* ParseJA3: [err, data]; err is "" on success, else the stage that failed.*)
(***************************************************************************)
JA3Fields(parts) ==
    <<IF parts[1] = <<>> THEN [ok |-> TRUE, vals |-> <<0>>]
      ELSE With(ParseUint(parts[1], 16), LAMBDA v : [ok |-> v.ok, vals |-> <<v.val>>]),
      ParseField(parts[2], 16), ParseField(parts[3], 16),
      ParseField(parts[4], 16), ParseField(parts[5], 8)>>

JA3Result(f) ==
    IF ~f[1].ok THEN [err |-> "version", data |-> Nil]
    ELSE IF ~f[2].ok THEN [err |-> "cipher", data |-> Nil]
    ELSE IF ~f[3].ok THEN [err |-> "extension", data |-> Nil]
    ELSE IF ~f[4].ok THEN [err |-> "curve", data |-> Nil]
    ELSE IF ~f[5].ok THEN [err |-> "point", data |-> Nil]
    ELSE [err |-> "",
          data |-> [Version |-> f[1].vals[1], CipherSuites |-> f[2].vals,
                    Extensions |-> f[3].vals, SupportedGroups |-> f[4].vals,
                    EllipticCurvePoint |-> f[5].vals]]

ParseJA3(ja3) ==
    With(Split(ja3, ","),
         LAMBDA parts : IF Len(parts) # 5 THEN [err |-> "format", data |-> Nil]
                        ELSE With(JA3Fields(parts), LAMBDA f : JA3Result(f)))

(***************************************************************************)
(* utls extension values.  Every typed extension has the wire id of its    *)
(* type; a GenericExtension carries the id it was given.                   *)
(***************************************************************************)
ExtTypeId(type) ==
    CASE type = "SNI" -> 0
      [] type = "StatusRequest" -> 5
      [] type = "SupportedCurves" -> 10
      [] type = "SupportedPoints" -> 11
      [] type = "SignatureAlgorithms" -> 13
      [] type = "ALPN" -> 16
      [] type = "SCT" -> 18
      [] type = "Padding" -> 21
      [] type = "ExtendedMasterSecret" -> 23
      [] type = "SessionTicket" -> 35
      [] type = "SupportedVersions" -> 43
      [] type = "PSKKeyExchangeModes" -> 45
      [] type = "KeyShare" -> 51
      [] type = "RenegotiationInfo" -> 65281

Ext(type, data) == [type |-> type, id |-> ExtTypeId(type), data |-> data]

GenericExtension(id) == [type |-> "Generic", id |-> id, data |-> <<>>]

(***************************************************************************)
(* buildExtension(extID, data, serverName).  A case whose condition fails  *)
(* leaves the switch and reaches the final return.                         *)
(***************************************************************************)
typedExtension(extID, data, serverName) ==
    CASE extID = 0 /\ serverName # "" -> Ext("SNI", <<serverName>>)
      [] extID = 5 -> Ext("StatusRequest", <<>>)
      [] extID = 10 /\ Len(data.SupportedGroups) > 0 ->
            Ext("SupportedCurves", data.SupportedGroups)
      [] extID = 11 /\ Len(data.EllipticCurvePoint) > 0 ->
            Ext("SupportedPoints", data.EllipticCurvePoint)
      [] extID = 13 ->
            Ext("SignatureAlgorithms",
                <<"ECDSAWithP256AndSHA256", "PSSWithSHA256", "PKCS1WithSHA256",
                  "ECDSAWithP384AndSHA384", "PSSWithSHA384", "PKCS1WithSHA384",
                  "PSSWithSHA512", "PKCS1WithSHA512">>)
      [] extID = 16 -> Ext("ALPN", <<"h2", "http/1.1">>)
      [] extID = 18 -> Ext("SCT", <<>>)
      [] extID = 21 -> Ext("Padding", <<"BoringPaddingStyle">>)
      [] extID = 23 -> Ext("ExtendedMasterSecret", <<>>)
      [] extID = 27 -> GenericExtension(27)
      [] extID = 35 -> Ext("SessionTicket", <<>>)
      [] extID = 43 -> Ext("SupportedVersions", <<772, 771>>)
      [] extID = 45 -> Ext("PSKKeyExchangeModes", <<1>>)
      [] extID = 51 -> Ext("KeyShare", <<"X25519">>)
      [] extID = 65281 -> Ext("RenegotiationInfo", <<"RenegotiateOnceAsClient">>)
      [] OTHER -> Nil

\* The slip "return nil" for what left the switch: such ids are then skipped.
buildExtensionDropUnknown(extID, data, serverName) ==
    typedExtension(extID, data, serverName)

buildExtension(extID, data, serverName) ==
    LET ext == typedExtension(extID, data, serverName)
    IN  IF ext # Nil THEN ext ELSE GenericExtension(extID)

(***************************************************************************)
(* BuildClientHelloSpecFromJA3(data, serverName): version min = max = the  *)
(* JA3 version, the cipher list copied, one buildExtension per id, a nil   *)
(* result skipped.  CompressionMethods is left at its zero value.          *)
(***************************************************************************)
RECURSIVE BuildExtensions(_, _, _, _)
BuildExtensions(ids, i, data, serverName) ==
    IF i > Len(ids) THEN <<>>
    ELSE LET ext == buildExtension(ids[i], data, serverName)
             rest == BuildExtensions(ids, i + 1, data, serverName)
         IN  IF ext # Nil THEN <<ext>> \o rest ELSE rest

CopyCiphers(cs) == [i \in 1..Len(cs) |-> cs[i]]

BuildClientHelloSpecFromJA3(data, serverName) ==
    IF data = Nil THEN [err |-> "JA3 data is nil", spec |-> Nil]
    ELSE [err |-> "",
          spec |-> [TLSVersMin |-> data.Version,
                    TLSVersMax |-> data.Version,
                    CipherSuites |-> CopyCiphers(data.CipherSuites),
                    CompressionMethods |-> <<>>,
                    Extensions |-> BuildExtensions(data.Extensions, 1, data, serverName)]]

(***************************************************************************)
(* hashicorp/golang-lru Cache as LRUCache uses it: the entries in recency  *)
(* order, most recently used first.  Get moves the entry to the front; Add *)
(* of a present key replaces the value, moves it to the front and reports  *)
(* no eviction; Add of a new key pushes it to the front and, when the      *)
(* length then exceeds the size, drops the oldest entry and reports it.    *)
(***************************************************************************)
IndexOfKey(entries, key) ==
    IF \E i \in 1..Len(entries) : entries[i].key = key
    THEN CHOOSE i \in 1..Len(entries) : entries[i].key = key
    ELSE 0

RemoveAt(seq, i) == SubSeq(seq, 1, i - 1) \o SubSeq(seq, i + 1, Len(seq))

lruGet(entries, key) ==
    LET i == IndexOfKey(entries, key)
    IN  IF i = 0 THEN [ok |-> FALSE, entry |-> Nil, entries |-> entries]
        ELSE [ok |-> TRUE, entry |-> entries[i],
              entries |-> <<entries[i]>> \o RemoveAt(entries, i)]

\* An Add that reports an eviction also when it replaced a present key.
lruAddCountsOverwrite(entries, key, spec, createdAt, size) ==
    LET i == IndexOfKey(entries, key)
        e == [key |-> key, spec |-> spec, createdAt |-> createdAt]
        all == <<e>> \o entries
    IN  IF i # 0
        THEN [entries |-> <<e>> \o RemoveAt(entries, i), evicted |-> TRUE]
        ELSE IF Len(all) > size
        THEN [entries |-> SubSeq(all, 1, Len(all) - 1), evicted |-> TRUE]
        ELSE [entries |-> all, evicted |-> FALSE]

lruAdd(entries, key, spec, createdAt, size) ==
    LET i == IndexOfKey(entries, key)
        e == [key |-> key, spec |-> spec, createdAt |-> createdAt]
        all == <<e>> \o entries
    IN  IF i # 0
        THEN [entries |-> <<e>> \o RemoveAt(entries, i), evicted |-> FALSE]
        ELSE IF Len(all) > size
        THEN [entries |-> SubSeq(all, 1, Len(all) - 1), evicted |-> TRUE]
        ELSE [entries |-> all, evicted |-> FALSE]

lruRemove(entries, key) ==
    LET i == IndexOfKey(entries, key)
    IN  IF i = 0 THEN entries ELSE RemoveAt(entries, i)

(***************************************************************************)
(* CacheConfig, NewLRUCache and the LRUCache methods.  An LRUCache is      *)
(* [config, entries, hits, misses, evictions, metricsResetAt].             *)
(***************************************************************************)
DefaultMaxSize == 1000

DefaultCacheConfig ==
    [Enabled |-> TRUE, MaxSize |-> DefaultMaxSize, TTL |-> 0, MetricsEnabled |-> TRUE]

\* time.Now() at clock reading t.  A time.Time is a struct of several words:
\* wall and ext hold the reading (the third word, loc, is the same pointer in
\* every value here).
timeNow(t) == [wall |-> t, ext |-> t]

NewLRUCache(config, t) ==
    LET c0 == IF config = Nil THEN DefaultCacheConfig ELSE config
        c1 == IF c0.MaxSize <= 0 THEN [c0 EXCEPT !.MaxSize = DefaultMaxSize] ELSE c0
    IN  [config |-> c1, entries |-> <<>>, hits |-> 0, misses |-> 0,
         evictions |-> 0, metricsResetAt |-> timeNow(t)]

\* time.Since(entry.createdAt) > TTL, for a configured TTL
Expired(c, entry, t) == c.config.TTL > 0 /\ t - entry.createdAt > c.config.TTL

\* The miss branch of Get: c.misses.Add(1) when metrics are enabled
getCountMiss(c) ==
    [c EXCEPT !.misses = IF c.config.MetricsEnabled THEN @ + 1 ELSE @]

\* The hit of Get: c.hits.Add(1) when metrics are enabled
getCountHit(c) ==
    [c EXCEPT !.hits = IF c.config.MetricsEnabled THEN @ + 1 ELSE @]

\* The expired branch of Get after its RUnlock: c.mu.Lock(), c.cache.Remove(key),
\* c.mu.Unlock()
expiredRemove(c, key) == [c EXCEPT !.entries = lruRemove(@, key)]

\* The expired branch of Get after its Remove: c.mu.RLock() and c.misses.Add(1)
expiredCountMiss(c) ==
    [c EXCEPT !.misses = IF c.config.MetricsEnabled THEN @ + 1 ELSE @]

\* The expired branch of Get: c.evictions.Add(1)
expiredCountEviction(c) ==
    [c EXCEPT !.evictions = IF c.config.MetricsEnabled THEN @ + 1 ELSE @]

\* The two counters of the expired branch with nothing between them
expiredCount(c) == expiredCountEviction(expiredCountMiss(c))

\* The expired branch of a Get that no other call overlaps, from the entries
\* the lookup left
expireEntry(c, entries, key) ==
    expiredCount(expiredRemove([c EXCEPT !.entries = entries], key))

\* LRUCache.Get with no call of another goroutine between its steps:
\* [cache, spec, found, expired]
LRUCacheGet(c, key, t) ==
    IF ~c.config.Enabled
    THEN [cache |-> c, spec |-> Nil, found |-> FALSE, expired |-> FALSE]
    ELSE
    LET g == lruGet(c.entries, key)
        m == c.config.MetricsEnabled
    IN  IF ~g.ok
        THEN [cache |-> [c EXCEPT !.misses = IF m THEN @ + 1 ELSE @],
              spec |-> Nil, found |-> FALSE, expired |-> FALSE]
        ELSE IF Expired(c, g.entry, t)
        THEN [cache |-> expireEntry(c, g.entries, key),
              spec |-> Nil, found |-> FALSE, expired |-> TRUE]
        ELSE [cache |-> [c EXCEPT !.entries = g.entries,
                                  !.hits = IF m THEN @ + 1 ELSE @],
              spec |-> g.entry.spec, found |-> TRUE, expired |-> FALSE]

\* LRUCache.Set
LRUCacheSet(c, key, spec, t) ==
    IF ~c.config.Enabled \/ spec = Nil THEN c
    ELSE LET a == lruAdd(c.entries, key, spec, t, c.config.MaxSize)
         IN  [c EXCEPT !.entries = a.entries,
                       !.evictions = IF a.evicted /\ c.config.MetricsEnabled
                                     THEN @ + 1 ELSE @]

LRUCacheClear(c) == [c EXCEPT !.entries = <<>>]

\* ResetMetrics, write by write.  It holds no lock: c.hits.Store(0),
\* c.misses.Store(0) and c.evictions.Store(0) are three atomic stores, and
\* c.metricsResetAt = time.Now() is a plain store of a struct, word by word.
resetHits(c) == [c EXCEPT !.hits = 0]

resetMisses(c) == [c EXCEPT !.misses = 0]

resetEvictions(c) == [c EXCEPT !.evictions = 0]

\* one word of c.metricsResetAt gets the word of the time read at clock reading t
resetStampWord(c, word, t) ==
    IF word = "wall" THEN [c EXCEPT !.metricsResetAt.wall = t]
    ELSE [c EXCEPT !.metricsResetAt.ext = t]

\* ResetMetrics with no step of another goroutine between its writes
LRUCacheResetMetrics(c, t) ==
    resetStampWord(resetStampWord(resetEvictions(resetMisses(resetHits(c))), "wall", t),
                   "ext", t)

LRUCacheSize(c) == Len(c.entries)

(***************************************************************************)
(* JSON descriptors.  A descriptor is [ciphers, version, extensions]; an   *)
(* extension object is a record of the payload fields the builders read.   *)
(* Names are Go strings; the functions that look inside one work on its    *)
(* characters.                                                             *)
(***************************************************************************)
\* a Go string as its sequence of one-character strings
Chars(str) == SubSeq([i \in 1..Len(str) |-> SubSeq(str, i, i)], 1, Len(str))

\* strings.Contains(s, substr)
Contains(s, substr) ==
    \E i \in 1..(Len(s) - Len(substr) + 1) : SubSeq(s, i, i + Len(substr) - 1) = substr

\* strings.TrimPrefix(s, prefix)
TrimPrefix(s, prefix) ==
    IF Len(s) >= Len(prefix) /\ SubSeq(s, 1, Len(prefix)) = prefix
    THEN SubSeq(s, Len(prefix) + 1, Len(s))
    ELSE s

\* strings.Index for one character, from position start on: 0 when absent
IndexFrom(cs, c, start) ==
    IF \E i \in start..Len(cs) : cs[i] = c
    THEN CHOOSE i \in start..Len(cs) : cs[i] = c /\ \A j \in start..(i - 1) : cs[j] # c
    ELSE 0

(***************************************************************************)
(* Go strings are sequences of bytes.  The model writes one as the TLA+    *)
(* string whose i-th character has the code of its i-th byte, so that len, *)
(* indexing and slicing are those of the code and a character outside      *)
(* ASCII is the characters of its UTF-8 encoding.                          *)
(***************************************************************************)
\* the bytes 128..255, in order
HighBytes == " ¡¢£¤¥¦§¨©ª«¬­®¯°±²³´µ¶·¸¹º»¼½¾¿ÀÁÂÃÄÅÆÇÈÉÊËÌÍÎÏÐÑÒÓÔÕÖ×ØÙÚÛÜÝÞßàáâãäåæçèéêëìíîïðñòóôõö÷øùúûüýþÿ"

HighByteSet == {SubSeq(HighBytes, i, i) : i \in 1..128}

\* the ASCII bytes 32..126 without 96, which no string of the module can
\* hold, in order
ASCIIChars == " !\"#$%&'()*+,-./0123456789:;<=>?@ABCDEFGHIJKLMNOPQRSTUVWXYZ[\\]^_abcdefghijklmnopqrstuvwxyz{|}~"

\* the value of the byte c when it is 128 or more, else 0
HighOrd(c) ==
    IF c \in HighByteSet THEN 127 + (CHOOSE i \in 1..128 : SubSeq(HighBytes, i, i) = c) ELSE 0

\* the value of the byte c
Ord(c) ==
    CASE c \in HighByteSet -> HighOrd(c)
      [] c = "\t" -> 9 [] c = "\n" -> 10 [] c = "" -> 11 [] c = "\f" -> 12 [] c = "\r" -> 13
      [] OTHER -> With(CHOOSE i \in 1..94 : SubSeq(ASCIIChars, i, i) = c,
                       LAMBDA i : IF i <= 64 THEN 31 + i ELSE 32 + i)

\* the byte b as a character, for the bytes 32..95, 97..126 and 128..255
Chr(b) ==
    IF b >= 128 THEN SubSeq(HighBytes, b - 127, b - 127)
    ELSE IF b <= 95 THEN SubSeq(ASCIIChars, b - 31, b - 31)
    ELSE SubSeq(ASCIIChars, b - 32, b - 32)

\* utf8.RuneError
RuneError == 65533

\* the length of the UTF-8 sequence that the first byte b0 announces; 1 for a
\* byte that starts none
runeSize(b0) ==
    IF 194 <= b0 /\ b0 <= 223 THEN 2
    ELSE IF 224 <= b0 /\ b0 <= 239 THEN 3
    ELSE IF 240 <= b0 /\ b0 <= 244 THEN 4
    ELSE 1

\* the second bytes that utf8 accepts after the first byte b0
acceptLo(b0) == CASE b0 = 224 -> 160 [] b0 = 240 -> 144 [] OTHER -> 128

acceptHi(b0) == CASE b0 = 237 -> 159 [] b0 = 244 -> 143 [] OTHER -> 191

\* the six payload bits of the byte cs[j] when it lies in lo..hi, else -1
contByte(cs, j, lo, hi) ==
    IF j > Len(cs) THEN -1
    ELSE With(HighOrd(cs[j]), LAMBDA b : IF lo <= b /\ b <= hi THEN b - 128 ELSE -1)

\* utf8.DecodeRuneInString(s[i:]) at a byte of 128 or more: [rune, size]; an
\* invalid or truncated sequence is RuneError of size 1
DecodeRune(cs, i) ==
    With(HighOrd(cs[i]), LAMBDA b0 :
    With(runeSize(b0), LAMBDA n :
    With(SubSeq([k \in 1..3 |->
                    IF k >= n THEN 0
                    ELSE contByte(cs, i + k, IF k = 1 THEN acceptLo(b0) ELSE 128,
                                  IF k = 1 THEN acceptHi(b0) ELSE 191)], 1, 3), LAMBDA t :
        IF n = 1 \/ \E k \in 1..3 : t[k] < 0 THEN [rune |-> RuneError, size |-> 1]
        ELSE [rune |-> CASE n = 2 -> (b0 - 192) * 64 + t[1]
                         [] n = 3 -> (b0 - 224) * 4096 + t[1] * 64 + t[2]
                         [] n = 4 -> (b0 - 240) * 262144 + t[1] * 4096 + t[2] * 64 + t[3],
              size |-> n])))

\* the UTF-8 encoding of the rune r (strings.Builder.WriteRune)
EncodeRune(r) ==
    IF r < 128 THEN Chr(r)
    ELSE IF r < 2048 THEN Chr(192 + (r \div 64)) \o Chr(128 + (r % 64))
    ELSE IF r < 65536
    THEN Chr(224 + (r \div 4096)) \o Chr(128 + ((r \div 64) % 64)) \o Chr(128 + (r % 64))
    ELSE Chr(240 + (r \div 262144)) \o Chr(128 + ((r \div 4096) % 64))
             \o Chr(128 + ((r \div 64) % 64)) \o Chr(128 + (r % 64))

\* unicode.IsSpace outside ASCII
UnicodeSpace == {133, 160, 5760} \cup (8192..8202) \cup {8232, 8233, 8239, 8287, 12288}

\* the ASCII white space: tab, line feed, vertical tab, form feed, carriage
\* return, space
SpaceChars == {"\t", "\n", "", "\f", "\r", " "}

\* the length in bytes of the white-space character that starts at cs[i]; 0
\* when none does
spaceAt(cs, i) ==
    IF cs[i] \in SpaceChars THEN 1
    ELSE IF cs[i] \notin HighByteSet THEN 0
    ELSE With(DecodeRune(cs, i), LAMBDA d : IF d.rune \in UnicodeSpace THEN d.size ELSE 0)

\* the length in bytes of the white-space character that ends at cs[j]
\* (utf8.DecodeLastRuneInString); 0 when none does
spaceBefore(cs, j) ==
    IF cs[j] \in SpaceChars THEN 1
    ELSE IF cs[j] \notin HighByteSet THEN 0
    ELSE IF \E n \in 2..3 : n <= j /\ spaceAt(cs, j - n + 1) = n
    THEN CHOOSE n \in 2..3 : n <= j /\ spaceAt(cs, j - n + 1) = n
    ELSE 0

RECURSIVE TrimLeftSpace(_)
\* strings.TrimLeftFunc(s, unicode.IsSpace)
TrimLeftSpace(cs) ==
    IF Len(cs) = 0 THEN cs
    ELSE With(spaceAt(cs, 1), LAMBDA n :
             IF n = 0 THEN cs ELSE TrimLeftSpace(SubSeq(cs, n + 1, Len(cs))))

RECURSIVE TrimRightSpace(_)
\* strings.TrimRightFunc(s, unicode.IsSpace)
TrimRightSpace(cs) ==
    IF Len(cs) = 0 THEN cs
    ELSE With(spaceBefore(cs, Len(cs)), LAMBDA n :
             IF n = 0 THEN cs ELSE TrimRightSpace(SubSeq(cs, 1, Len(cs) - n)))

\* strings.TrimSpace
TrimSpace(cs) == TrimRightSpace(TrimLeftSpace(cs))

HexVal(c) ==
    CASE c \in Digits -> DigitVal(c)
      [] c \in {"a", "A"} -> 10 [] c \in {"b", "B"} -> 11 [] c \in {"c", "C"} -> 12
      [] c \in {"d", "D"} -> 13 [] c \in {"e", "E"} -> 14 [] c \in {"f", "F"} -> 15
      [] OTHER -> 16

RECURSIVE ParseHexAcc(_, _, _, _)
ParseHexAcc(s, i, acc, max) ==
    IF i > Len(s) THEN [ok |-> TRUE, val |-> acc]
    ELSE IF HexVal(s[i]) = 16 THEN [ok |-> FALSE, val |-> 0]
    ELSE With(acc * 16 + HexVal(s[i]),
              LAMBDA n : IF n > max THEN [ok |-> FALSE, val |-> max]
                         ELSE ParseHexAcc(s, i + 1, n, max))

\* strconv.ParseUint(s, 16, bitSize)
ParseUintHex(s, bitSize) ==
    IF Len(s) = 0 THEN [ok |-> FALSE, val |-> 0]
    ELSE ParseHexAcc(s, 1, 0, 2 ^ bitSize - 1)

RECURSIVE DecimalMod(_, _, _, _)
\* the decimal number ds from digit i on, after acc, reduced modulo m
DecimalMod(ds, i, acc, m) ==
    IF i > Len(ds) THEN acc
    ELSE DecimalMod(ds, i + 1, (acc * 10 + DigitVal(ds[i])) % m, m)

\* ds without its leading zeros
StripZeros(ds) ==
    IF \A i \in 1..Len(ds) : ds[i] = "0" THEN <<>>
    ELSE SubSeq(ds, CHOOSE i \in 1..Len(ds) :
                        ds[i] # "0" /\ \A j \in 1..(i - 1) : ds[j] = "0", Len(ds))

\* the number a is at most the number b, for digit strings without leading zeros
DecimalLeq(a, b) ==
    \/ Len(a) < Len(b)
    \/ /\ Len(a) = Len(b)
       /\ \A i \in 1..Len(a) :
              (\A j \in 1..(i - 1) : a[j] = b[j]) => DigitVal(a[i]) <= DigitVal(b[i])

MaxInt64 == Chars("9223372036854775807")

MinInt64Magnitude == Chars("9223372036854775808")

\* uint16(id) of strconv.Atoi(s): [ok, val]; an optional sign, decimal digits,
\* and a range error outside int64
AtoiUint16(s) ==
    With(IF Len(s) > 0 /\ s[1] \in {"+", "-"} THEN SubSeq(s, 2, Len(s)) ELSE s, LAMBDA ds :
        IF Len(ds) = 0 \/ \E i \in 1..Len(ds) : ds[i] \notin Digits
        THEN [ok |-> FALSE, val |-> 0]
        ELSE IF s[1] = "-"
        THEN [ok |-> DecimalLeq(StripZeros(ds), MinInt64Magnitude),
              val |-> (65536 - DecimalMod(ds, 1, 0, 65536)) % 65536]
        ELSE [ok |-> DecimalLeq(StripZeros(ds), MaxInt64),
              val |-> DecimalMod(ds, 1, 0, 65536)])

ExtJSON(name) ==
    [Name |-> name, ServerName |-> "", SupportedGroups |-> <<>>,
     EllipticCurvesPointFormats |-> <<>>, Protocols |-> <<>>, Versions |-> <<>>,
     SignatureAlgorithms |-> <<>>, PaddingDataLength |-> 0]

\* fingerprint.parseCipherSuiteName: 0 for a name outside the table
parseCipherSuiteName(name) ==
    CASE name = "TLS_AES_128_GCM_SHA256" -> 4865
      [] name = "TLS_AES_256_GCM_SHA384" -> 4866
      [] name = "TLS_CHACHA20_POLY1305_SHA256" -> 4867
      [] name = "TLS_AES_128_CCM_SHA256" -> 4868
      [] name = "TLS_AES_128_CCM_8_SHA256" -> 4869
      [] name = "TLS_ECDHE_ECDSA_WITH_AES_128_GCM_SHA256" -> 49195
      [] name = "TLS_ECDHE_ECDSA_WITH_AES_256_GCM_SHA384" -> 49196
      [] name = "TLS_ECDHE_ECDSA_WITH_AES_128_CBC_SHA" -> 49161
      [] name = "TLS_ECDHE_ECDSA_WITH_AES_256_CBC_SHA" -> 49162
      [] name = "TLS_ECDHE_ECDSA_WITH_AES_128_CBC_SHA256" -> 49187
      [] name = "TLS_ECDHE_ECDSA_WITH_AES_256_CBC_SHA384" -> 49188
      [] name = "TLS_ECDHE_ECDSA_WITH_CHACHA20_POLY1305_SHA256" -> 52393
      [] name = "TLS_ECDHE_RSA_WITH_AES_128_GCM_SHA256" -> 49199
      [] name = "TLS_ECDHE_RSA_WITH_AES_256_GCM_SHA384" -> 49200
      [] name = "TLS_ECDHE_RSA_WITH_AES_128_CBC_SHA" -> 49171
      [] name = "TLS_ECDHE_RSA_WITH_AES_256_CBC_SHA" -> 49172
      [] name = "TLS_ECDHE_RSA_WITH_AES_128_CBC_SHA256" -> 49191
      [] name = "TLS_ECDHE_RSA_WITH_AES_256_CBC_SHA384" -> 49192
      [] name = "TLS_ECDHE_RSA_WITH_CHACHA20_POLY1305_SHA256" -> 52392
      [] name = "TLS_RSA_WITH_AES_128_GCM_SHA256" -> 156
      [] name = "TLS_RSA_WITH_AES_256_GCM_SHA384" -> 157
      [] name = "TLS_RSA_WITH_AES_128_CBC_SHA" -> 47
      [] name = "TLS_RSA_WITH_AES_256_CBC_SHA" -> 53
      [] name = "TLS_RSA_WITH_AES_128_CBC_SHA256" -> 60
      [] name = "TLS_RSA_WITH_AES_256_CBC_SHA256" -> 61
      [] name = "TLS_DHE_RSA_WITH_AES_128_GCM_SHA256" -> 158
      [] name = "TLS_DHE_RSA_WITH_AES_256_GCM_SHA384" -> 159
      [] name = "TLS_DHE_RSA_WITH_AES_128_CBC_SHA" -> 51
      [] name = "TLS_DHE_RSA_WITH_AES_256_CBC_SHA" -> 57
      [] name = "TLS_DHE_RSA_WITH_AES_128_CBC_SHA256" -> 103
      [] name = "TLS_DHE_RSA_WITH_AES_256_CBC_SHA256" -> 107
      [] name = "TLS_DHE_RSA_WITH_CHACHA20_POLY1305_SHA256" -> 52394
      [] name = "TLS_RSA_WITH_3DES_EDE_CBC_SHA" -> 10
      [] name = "TLS_RSA_WITH_RC4_128_SHA" -> 5
      [] name = "TLS_RSA_WITH_RC4_128_MD5" -> 4
      [] name = "TLS_ECDHE_RSA_WITH_3DES_EDE_CBC_SHA" -> 49170
      [] name = "TLS_ECDHE_ECDSA_WITH_3DES_EDE_CBC_SHA" -> 49160
      [] name = "TLS_PSK_WITH_AES_128_GCM_SHA256" -> 168
      [] name = "TLS_PSK_WITH_AES_256_GCM_SHA384" -> 169
      [] name = "TLS_PSK_WITH_AES_128_CBC_SHA256" -> 174
      [] name = "TLS_DHE_PSK_WITH_AES_128_GCM_SHA256" -> 170
      [] name = "TLS_DHE_PSK_WITH_AES_256_GCM_SHA384" -> 171
      [] name = "TLS_ECDHE_PSK_WITH_AES_128_CBC_SHA256" -> 49207
      [] name = "TLS_ECDHE_PSK_WITH_AES_256_CBC_SHA384" -> 49208
      [] name = "TLS_ECDHE_PSK_WITH_CHACHA20_POLY1305_SHA256" -> 52396
      [] name = "TLS_RSA_WITH_ARIA_128_GCM_SHA256" -> 49232
      [] name = "TLS_RSA_WITH_ARIA_256_GCM_SHA384" -> 49233
      [] name = "TLS_ECDHE_ECDSA_WITH_ARIA_128_GCM_SHA256" -> 49244
      [] name = "TLS_ECDHE_ECDSA_WITH_ARIA_256_GCM_SHA384" -> 49245
      [] name = "TLS_ECDHE_RSA_WITH_ARIA_128_GCM_SHA256" -> 49248
      [] name = "TLS_ECDHE_RSA_WITH_ARIA_256_GCM_SHA384" -> 49249
      [] OTHER -> 0

\* ja3.ParseCipherName: -1 stands for the error return
ParseCipherName(name) ==
    CASE name = "TLS_AES_128_GCM_SHA256" -> 4865
      [] name = "TLS_AES_256_GCM_SHA384" -> 4866
      [] name = "TLS_CHACHA20_POLY1305_SHA256" -> 4867
      [] name = "TLS_ECDHE_ECDSA_WITH_AES_128_GCM_SHA256" -> 49195
      [] name = "TLS_ECDHE_RSA_WITH_AES_128_GCM_SHA256" -> 49199
      [] name = "TLS_ECDHE_ECDSA_WITH_AES_256_GCM_SHA384" -> 49196
      [] name = "TLS_ECDHE_RSA_WITH_AES_256_GCM_SHA384" -> 49200
      [] name = "TLS_ECDHE_ECDSA_WITH_CHACHA20_POLY1305_SHA256" -> 52393
      [] name = "TLS_ECDHE_RSA_WITH_CHACHA20_POLY1305_SHA256" -> 52392
      [] name = "TLS_ECDHE_RSA_WITH_AES_128_CBC_SHA" -> 49171
      [] name = "TLS_ECDHE_RSA_WITH_AES_256_CBC_SHA" -> 49172
      [] name = "TLS_RSA_WITH_AES_128_GCM_SHA256" -> 156
      [] name = "TLS_RSA_WITH_AES_256_GCM_SHA384" -> 157
      [] name = "TLS_RSA_WITH_AES_128_CBC_SHA" -> 47
      [] name = "TLS_RSA_WITH_AES_256_CBC_SHA" -> 53
      [] name = "TLS_ECDHE_ECDSA_WITH_AES_128_CBC_SHA" -> 49161
      [] name = "TLS_ECDHE_ECDSA_WITH_AES_256_CBC_SHA" -> 49162
      [] OTHER -> -1

\* fingerprint.parseSupportedGroup: the table, else the number between the
\* first "(" and the next ")", else 0
parseSupportedGroup(name) ==
    CASE name = "X25519 (29)" -> 29
      [] name = "P-256 (23)" -> 23
      [] name = "P-384 (24)" -> 24
      [] name = "P-521 (25)" -> 25
      [] OTHER ->
         With(Chars(name), LAMBDA cs :
         With(IndexFrom(cs, "(", 1), LAMBDA idx :
             IF idx = 0 THEN 0
             ELSE With(IndexFrom(cs, ")", idx), LAMBDA endIdx :
                 IF endIdx = 0 THEN 0
                 ELSE With(AtoiUint16(TrimSpace(SubSeq(cs, idx + 1, endIdx - 1))),
                           LAMBDA id : IF id.ok THEN id.val ELSE 0))))

parseSignatureAlgorithm(name) ==
    CASE name = "ecdsa_secp256r1_sha256" -> 1027
      [] name = "ecdsa_secp384r1_sha384" -> 1283
      [] name = "ecdsa_secp521r1_sha512" -> 1539
      [] name = "rsa_pss_rsae_sha256" -> 2052
      [] name = "rsa_pss_rsae_sha384" -> 2053
      [] name = "rsa_pss_rsae_sha512" -> 2054
      [] name = "rsa_pkcs1_sha256" -> 1025
      [] name = "rsa_pkcs1_sha384" -> 1281
      [] name = "rsa_pkcs1_sha512" -> 1537
      [] name = "rsa_pkcs1_sha1" -> 513
      [] OTHER -> 0

parseTLSVersion(ver) ==
    CASE ver = "TLS 1.3" -> 772
      [] ver = "TLS 1.2" -> 771
      [] ver = "TLS 1.1" -> 770
      [] ver = "TLS 1.0" -> 769
      [] OTHER -> 0

\* fingerprint.parsePointFormat: hexadecimal after an optional 0x; 255 when
\* invalid
parsePointFormat(pf) ==
    With(ParseUintHex(Chars(TrimPrefix(pf, "0x")), 8),
         LAMBDA v : IF v.ok THEN v.val ELSE 255)

\* the table of ja3.ParseSupportedGroup, looked up by the trimmed name
groupMapId(normalizedName) ==
    CASE normalizedName = Chars("X25519") -> 29
      [] normalizedName = Chars("P-256") -> 23
      [] normalizedName = Chars("P-384") -> 24
      [] normalizedName = Chars("P-521") -> 25
      [] normalizedName = Chars("secp256r1") -> 23
      [] normalizedName = Chars("secp384r1") -> 24
      [] normalizedName = Chars("secp521r1") -> 25
      [] normalizedName = Chars("x25519") -> 29
      [] OTHER -> -1

\* ja3.ParseSupportedGroup: the number in parentheses when "(" is not the
\* first character and the first ")" comes after it, else the name table;
\* -1 stands for the error return
ParseSupportedGroup(name) ==
    With(Chars(name), LAMBDA cs :
    With(IndexFrom(cs, "(", 1), LAMBDA idx :
    With(IndexFrom(cs, ")", 1), LAMBDA endIdx :
    With(IF idx > 1 /\ endIdx > idx
         THEN ParseUint(TrimSpace(SubSeq(cs, idx + 1, endIdx - 1)), 16)
         ELSE [ok |-> FALSE, val |-> 0], LAMBDA v :
        IF v.ok THEN v.val ELSE groupMapId(TrimSpace(cs))))))

\* ja3.ParseSignatureAlgorithm; -1 stands for the error return
ParseSignatureAlgorithm(name) ==
    CASE name = "rsa_pkcs1_sha256" -> 1025
      [] name = "rsa_pkcs1_sha384" -> 1281
      [] name = "rsa_pkcs1_sha512" -> 1537
      [] name = "ecdsa_secp256r1_sha256" -> 1027
      [] name = "ecdsa_secp384r1_sha384" -> 1283
      [] name = "ecdsa_secp521r1_sha512" -> 1539
      [] name = "rsa_pss_rsae_sha256" -> 2052
      [] name = "rsa_pss_rsae_sha384" -> 2053
      [] name = "rsa_pss_rsae_sha512" -> 2054
      [] name = "ed25519" -> 2055
      [] name = "rsa_pss_pss_sha256" -> 2057
      [] name = "rsa_pss_pss_sha384" -> 2058
      [] name = "rsa_pss_pss_sha512" -> 2059
      [] OTHER -> -1

\* ja3.ParseTLSVersion: the table, else a decimal number of 16 bits; -1 stands
\* for the error return
ParseTLSVersion(version) ==
    CASE version = "TLS 1.0" -> 769
      [] version = "TLS 1.1" -> 770
      [] version = "TLS 1.2" -> 771
      [] version = "TLS 1.3" -> 772
      [] version = "SSL 3.0" -> 768
      [] OTHER -> With(ParseUint(Chars(version), 16),
                       LAMBDA v : IF v.ok THEN v.val ELSE -1)

\* fmt.Sscanf(pointStr, "%02x", &point) on a string of two bytes: leading
\* space is skipped, but a line feed there is an error; then the hexadecimal
\* digits are read; point stays 0 when the scan fails
Sscanf02x(cs) ==
    IF cs[1] = "\n" THEN 0
    ELSE With(IF cs[1] \in SpaceChars THEN SubSeq(cs, 2, 2) ELSE cs, LAMBDA ds :
        IF HexVal(ds[1]) = 16 THEN 0
        ELSE IF Len(ds) = 2 /\ HexVal(ds[2]) # 16 THEN HexVal(ds[1]) * 16 + HexVal(ds[2])
        ELSE HexVal(ds[1]))

\* the point-format scan of BuildClientHelloSpecFromFile: a string of length 2
\* after an optional 0x is scanned and appended; -1 stands for a string that
\* is skipped
scanPointFormat(pointStr) ==
    With(Chars(TrimPrefix(pointStr, "0x")),
         LAMBDA cs : IF Len(cs) = 2 THEN Sscanf02x(cs) ELSE -1)

\* The loops of the builders that parse every name of a list and append the
\* results that are no failure: vs are the parse results in order, bad is the
\* value of a failed parse.
appended(vs, bad) == SelectSeq(SubSeq(vs, 1, Len(vs)), LAMBDA v : v # bad)

RECURSIVE firstWordFrom(_, _, _)
firstWordFrom(name, words, i) ==
    IF i > Len(words) THEN ""
    ELSE IF Contains(name, words[i]) THEN words[i]
    ELSE firstWordFrom(name, words, i + 1)

\* The case a switch of strings.Contains tests enters: the first word of the
\* list that the name contains, "" when it contains none.
firstWord(name, words) == firstWordFrom(name, words, 1)

\* the case each extension object of a descriptor enters
switchCases(exts, words) == [i \in 1..Len(exts) |-> firstWord(exts[i].Name, words)]

\* the case words of the switch in BuildClientHelloSpecFromJSON, in its order
jsonSwitchWords ==
    <<"server_name", "supported_groups", "ec_point_formats",
      "application_layer_protocol_negotiation", "signature_algorithms",
      "supported_versions", "key_share", "psk_key_exchange_modes", "session_ticket",
      "status_request", "signed_certificate_timestamp", "extended_master_secret",
      "renegotiation_info", "extensionRenegotiationInfo", "padding">>

\* the case words of the switch in BuildClientHelloSpecFromFile, in its order
fileSwitchWords ==
    <<"server_name", "supported_groups", "ec_point_formats", "signature_algorithms",
      "application_layer_protocol_negotiation", "supported_versions", "key_share",
      "padding", "session_ticket", "extended_master_secret", "status_request",
      "psk_key_exchange_modes", "signed_certificate_timestamp", "renegotiation_info">>

\* what the case w of the switch in BuildClientHelloSpecFromJSON appends for
\* the object ext, with the curves collected before it and with it
jsonCase(ext, w, curves, curves2) ==
    CASE w = "server_name" ->
           IF ext.ServerName # "" THEN <<Ext("SNI", <<ext.ServerName>>)>> ELSE <<>>
      [] w = "supported_groups" -> <<Ext("SupportedCurves", curves2)>>
      [] w = "ec_point_formats" ->
           <<Ext("SupportedPoints",
                 appended([j \in 1..Len(ext.EllipticCurvesPointFormats) |->
                              parsePointFormat(ext.EllipticCurvesPointFormats[j])], 255))>>
      [] w = "application_layer_protocol_negotiation" -> <<Ext("ALPN", ext.Protocols)>>
      [] w = "signature_algorithms" ->
           <<Ext("SignatureAlgorithms",
                 appended([j \in 1..Len(ext.SignatureAlgorithms) |->
                              parseSignatureAlgorithm(ext.SignatureAlgorithms[j])], 0))>>
      [] w = "supported_versions" ->
           <<Ext("SupportedVersions",
                 appended([j \in 1..Len(ext.Versions) |-> parseTLSVersion(ext.Versions[j])],
                          0))>>
      [] w = "key_share" -> IF Len(curves) > 0 THEN <<Ext("KeyShare", <<>>)>> ELSE <<>>
      [] w = "psk_key_exchange_modes" -> <<Ext("PSKKeyExchangeModes", <<1>>)>>
      [] w = "session_ticket" -> <<Ext("SessionTicket", <<>>)>>
      [] w = "status_request" -> <<Ext("StatusRequest", <<>>)>>
      [] w = "signed_certificate_timestamp" -> <<Ext("SCT", <<>>)>>
      [] w = "extended_master_secret" -> <<Ext("ExtendedMasterSecret", <<>>)>>
      [] w \in {"renegotiation_info", "extensionRenegotiationInfo"} ->
           <<Ext("RenegotiationInfo", <<"RenegotiateOnceAsClient">>)>>
      [] w = "padding" ->
           IF ext.PaddingDataLength > 0
           THEN <<Ext("Padding", <<"BoringPaddingStyle">>)>> ELSE <<>>
      [] OTHER -> <<>>

RECURSIVE jsonExtensions(_, _, _, _)
\* The extension loop of BuildClientHelloSpecFromJSON from index i on, with
\* the case of every object and the curves collected so far.
jsonExtensions(exts, cases, i, curves) ==
    IF i > Len(exts) THEN <<>>
    ELSE With(IF cases[i] = "supported_groups"
              THEN curves \o appended([j \in 1..Len(exts[i].SupportedGroups) |->
                                            parseSupportedGroup(exts[i].SupportedGroups[j])],
                                        0)
              ELSE curves,
              LAMBDA curves2 :
                  jsonCase(exts[i], cases[i], curves, curves2)
                      \o jsonExtensions(exts, cases, i + 1, curves2))

\* fingerprint.BuildClientHelloSpecFromJSON
BuildClientHelloSpecFromJSON(chJSON) ==
    [TLSVersMin |-> 769, TLSVersMax |-> 772,
     CipherSuites |-> appended([j \in 1..Len(chJSON.ciphers) |->
                                  parseCipherSuiteName(chJSON.ciphers[j])], 0),
     CompressionMethods |-> <<0>>,
     Extensions |-> With(switchCases(chJSON.extensions, jsonSwitchWords), LAMBDA cases :
                        jsonExtensions(chJSON.extensions, cases, 1, <<>>))]

\* what the case w of the switch in BuildClientHelloSpecFromFile appends
\* inside the loop for the object ext
fileCase(ext, w, serverName) ==
    CASE w = "server_name" ->
           IF serverName # "" THEN <<Ext("SNI", <<serverName>>)>> ELSE <<>>
      [] w = "padding" ->
           IF ext.PaddingDataLength > 0
           THEN <<Ext("Padding", <<"BoringPaddingStyle">>)>> ELSE <<>>
      [] w = "session_ticket" -> <<Ext("SessionTicket", <<>>)>>
      [] w = "extended_master_secret" -> <<Ext("ExtendedMasterSecret", <<>>)>>
      [] w = "status_request" -> <<Ext("StatusRequest", <<>>)>>
      [] w = "psk_key_exchange_modes" -> <<Ext("PSKKeyExchangeModes", <<1>>)>>
      [] w = "signed_certificate_timestamp" -> <<Ext("SCT", <<>>)>>
      [] w = "renegotiation_info" ->
           <<Ext("RenegotiationInfo", <<"RenegotiateOnceAsClient">>)>>
      [] OTHER -> <<>>

RECURSIVE fileExtensions(_, _, _, _)
\* The extensions BuildClientHelloSpecFromFile appends inside its loop.
fileExtensions(exts, cases, i, serverName) ==
    IF i > Len(exts) THEN <<>>
    ELSE fileCase(exts[i], cases[i], serverName)
             \o fileExtensions(exts, cases, i + 1, serverName)

RECURSIVE fileCollect(_, _, _, _)
\* The names the loop meets, in order, in the extensions that enter the case
\* of word: each is parsed and, unless the parse fails, appended.
fileCollect(exts, cases, i, word) ==
    IF i > Len(exts) THEN <<>>
    ELSE (IF cases[i] # word THEN <<>>
          ELSE CASE word = "supported_groups" -> exts[i].SupportedGroups
                 [] word = "ec_point_formats" -> exts[i].EllipticCurvesPointFormats
                 [] word = "signature_algorithms" -> exts[i].SignatureAlgorithms
                 [] word = "supported_versions" -> exts[i].Versions)
         \o fileCollect(exts, cases, i + 1, word)

RECURSIVE lastProtocols(_, _, _)
\* alpnProtocols after the loop: the Protocols of the last ALPN object
lastProtocols(exts, cases, i) ==
    IF i = 0 THEN <<>>
    ELSE IF cases[i] = "application_layer_protocol_negotiation" THEN exts[i].Protocols
    ELSE lastProtocols(exts, cases, i - 1)

\* the version BuildClientHelloSpecFromFile sets: ParseTLSVersion of a
\* non-empty record version, the zero value when it is empty or does not parse
fileVersion(record) ==
    IF record = "" THEN 0
    ELSE With(ParseTLSVersion(record), LAMBDA v : IF v = -1 THEN 0 ELSE v)

\* an extension appended only when the list collected for it is not empty
optExt(type, data) == With(data, LAMBDA d : IF Len(d) > 0 THEN <<Ext(type, d)>> ELSE <<>>)

\* the extensions BuildClientHelloSpecFromFile appends after its loop
fileCollected(exts, cases) ==
    optExt("SupportedCurves",
           With(fileCollect(exts, cases, 1, "supported_groups"), LAMBDA names :
               appended([j \in 1..Len(names) |-> ParseSupportedGroup(names[j])], -1)))
    \o optExt("SupportedPoints",
              With(fileCollect(exts, cases, 1, "ec_point_formats"), LAMBDA names :
                  appended([j \in 1..Len(names) |-> scanPointFormat(names[j])], -1)))
    \o optExt("SignatureAlgorithms",
              With(fileCollect(exts, cases, 1, "signature_algorithms"), LAMBDA names :
                  appended([j \in 1..Len(names) |-> ParseSignatureAlgorithm(names[j])],
                           -1)))
    \o optExt("SupportedVersions",
              With(fileCollect(exts, cases, 1, "supported_versions"), LAMBDA names :
                  appended([j \in 1..Len(names) |-> ParseTLSVersion(names[j])], -1)))
    \o optExt("ALPN", lastProtocols(exts, cases, Len(exts)))

\* ja3.BuildClientHelloSpecFromFile: [err, spec]
BuildClientHelloSpecFromFile(specFile, serverName) ==
    IF specFile = Nil THEN [err |-> "build", spec |-> Nil]
    ELSE With(fileVersion(specFile.version), LAMBDA version :
         With(switchCases(specFile.extensions, fileSwitchWords), LAMBDA cases :
             [err |-> "",
              spec |-> [TLSVersMin |-> version, TLSVersMax |-> version,
                        CipherSuites |->
                            appended([j \in 1..Len(specFile.ciphers) |->
                                         ParseCipherName(specFile.ciphers[j])], -1),
                        CompressionMethods |-> <<>>,
                        Extensions |-> fileExtensions(specFile.extensions, cases, 1,
                                                      serverName)
                                        \o fileCollected(specFile.extensions, cases)]]))

(***************************************************************************)
(* The profile catalog, the file system as seen through one path, the      *)
(* global cache and the cached file parser.                                *)
(***************************************************************************)
BrowserProfiles ==
       "chrome_modern" :>
         "771,4865-4866-4867-49195-49199-49196-49200-52393-52392-49171-49172-156-157-47-53,0-23-65281-10-11-35-16-5-13-18-51-45-43-27-21,29-23-24,0"
    @@ "chrome_108" :>
         "771,4865-4866-4867-49195-49199-49196-49200-52393-52392-49171-49172-156-157-47-53,0-23-65281-10-11-35-16-5-13-18-51-45-43-27-17513-21,29-23-24,0"
    @@ "firefox_latest" :>
         "771,4865-4867-4866-49195-49199-52393-52392-49196-49200-49162-49161-49171-49172-156-157-47-53,0-23-65281-10-11-35-16-5-51-43-13-45-28-21,29-23-24-25-256-257,0"
    @@ "firefox_102" :>
         "771,4865-4867-4866-49195-49199-52393-52392-49196-49200-49162-49161-49171-49172-156-157-47-53,0-23-65281-10-11-35-16-5-51-43-13-45-28-21,29-23-24-25,0"
    @@ "safari_17" :>
         "771,4865-4866-4867-49196-49195-52393-49200-49199-52392-49162-49161-49172-49171-157-156-53-47-49160-49170-10,0-23-65281-10-11-16-5-13-18-51-45-43-27-21,29-23-24-25,0"
    @@ "safari_ios_17" :>
         "771,4865-4866-4867-49196-49195-52393-49200-49199-52392-49162-49161-49172-49171-157-156-53-47,0-23-65281-10-11-16-5-13,29-23-24-25,0"
    @@ "edge_latest" :>
         "771,4865-4866-4867-49195-49199-49196-49200-52393-52392-49171-49172-156-157-47-53,0-23-65281-10-11-35-16-5-13-18-51-45-43-27-21,29-23-24,0"
    @@ "android_chrome" :>
         "771,4865-4866-4867-49195-49199-49196-49200-52393-52392-49171-49172-156-157-47-53,0-23-65281-10-11-35-16-5-13-51-45-43-27-21,29-23-24,0"
    @@ "okhttp_android" :>
         "771,4865-4866-4867-49195-49199-49196-49200-52393-52392-49171-49172-156-157-47-53,0-23-65281-10-11-35-16-5-13,29-23-24,0"
    @@ "chrome_98" :>
         "771,4865-4866-4867-49195-49199-49196-49200-52393-52392-49171-49172-156-157-47-53,0-23-65281-10-11-35-16-5-13-18-51-45-43-27,29-23-24,0"
    @@ "firefox_91" :>
         "771,4865-4867-4866-49195-49199-52393-52392-49196-49200-49162-49161-49171-49172-156-157-47-53,0-23-65281-10-11-35-16-5-51-43-13-45-28,29-23-24-25,0"
    @@ "curl_latest" :>
         "771,4865-4866-4867-49195-49199-49196-49200-52393-52392-49171-49172-156-157-47-53,0-23-65281-10-11-35-16-5-13,29-23-24,0"
    @@ "python_requests" :>
         "771,4866-4867-4865-49200-49196-49192-49188-49172-49162-159-107-57-52393-52392-52394-65413-196-136-129-157-61-53-132-49199-49195-49191-49187-49171-49161-158-103-51-190-69-156-60-47-186-65-49169-49159-5-4-49170-49160-22-10-255,11-10-35-22-23-13-43-45-51,29-23-30-25-24,0-1-2"
    @@ "go_http" :>
         "771,4865-4866-4867-49195-49199-49196-49200-52393-52392-49171-49172-156-157-47-53,0-23-65281-10-11-35-16-5-13,29-23-24,0"
    @@ "brave_browser" :>
         "771,4865-4866-4867-49195-49199-49196-49200-52393-52392-49171-49172-156-157-47-53,0-23-65281-10-11-35-16-5-13-18-51-45-43-27-21,29-23-24,0"
    @@ "samsung_internet" :>
         "771,4865-4866-4867-49195-49199-49196-49200-52393-52392-49171-49172-156-157-47-53,0-23-65281-10-11-35-16-5-13-51-45-43-27-21,29-23-24,0"
    @@ "firefox_android" :>
         "771,4865-4867-4866-49195-49199-52393-52392-49196-49200-49162-49161-49171-49172-156-157-47-53,0-23-65281-10-11-35-16-5-51-43-13-45-28-21,29-23-24-25,0"
    @@ "safari_ipad" :>
         "771,4865-4866-4867-49196-49195-52393-49200-49199-52392-49162-49161-49172-49171-157-156-53-47,0-23-65281-10-11-16-5-13,29-23-24-25,0"
    @@ "opera_gx" :>
         "771,4865-4866-4867-49195-49199-49196-49200-52393-52392-49171-49172-156-157-47-53,0-23-65281-10-11-35-16-5-13-18-51-45-43-27-21,29-23-24,0"
    @@ "vivaldi" :>
         "771,4865-4866-4867-49195-49199-49196-49200-52393-52392-49171-49172-156-157-47-53,0-23-65281-10-11-35-16-5-13-18-51-45-43-27-21,29-23-24,0"
    @@ "tor_browser" :>
         "771,4865-4867-4866-49195-49199-52393-52392-49196-49200-49162-49161-49171-49172-156-157-47-53,0-23-65281-10-11-35-16-5-51-43-13-45-28-21,29-23-24-25,0"
    @@ "yandex_browser" :>
         "771,4865-4866-4867-49195-49199-49196-49200-52393-52392-49171-49172-156-157-47-53,0-23-65281-10-11-35-16-5-13-18-51-45-43-27-21,29-23-24,0"
    @@ "uc_browser" :>
         "771,4865-4866-4867-49195-49199-49196-49200-52393-52392-49171-49172-156-157-47-53,0-23-65281-10-11-35-16-5-13,29-23-24,0"
    @@ "whale_browser" :>
         "771,4865-4866-4867-49195-49199-49196-49200-52393-52392-49171-49172-156-157-47-53,0-23-65281-10-11-35-16-5-13-18-51-45-43-27-21,29-23-24,0"
    @@ "edge_mobile" :>
         "771,4865-4866-4867-49195-49199-49196-49200-52393-52392-49171-49172-156-157-47-53,0-23-65281-10-11-35-16-5-13-51-45-43-27-21,29-23-24,0"
    @@ "opera_mobile" :>
         "771,4865-4866-4867-49195-49199-49196-49200-52393-52392-49171-49172-156-157-47-53,0-23-65281-10-11-35-16-5-13-51-45-43-27-21,29-23-24,0"
    @@ "duckduckgo_browser" :>
         "771,4865-4866-4867-49195-49199-49196-49200-52393-52392-49171-49172-156-157-47-53,0-23-65281-10-11-35-16-5-13,29-23-24,0"
    @@ "ecosia_browser" :>
         "771,4865-4866-4867-49195-49199-49196-49200-52393-52392-49171-49172-156-157-47-53,0-23-65281-10-11-35-16-5-13-18-51-45-43-27-21,29-23-24,0"
    @@ "maxthon_browser" :>
         "771,4865-4866-4867-49195-49199-49196-49200-52393-52392-49171-49172-156-157-47-53,0-23-65281-10-11-35-16-5-13,29-23-24,0"

GetBrowserJA3(profileName) ==
    IF profileName \in DOMAIN BrowserProfiles THEN BrowserProfiles[profileName] ELSE ""

DrawnServerNames == {"", "example.com"}

\* unicode.ToLower as ranges <<lo, hi, stride, delta>>: a rune r of lo..hi with
\* (r - lo) a multiple of stride has the lower case r + delta
LowerRanges == <<
    <<65, 90, 1, 32>>, <<192, 214, 1, 32>>, <<216, 222, 1, 32>>, <<256, 302, 2, 1>>,
    <<304, 304, 1, -199>>, <<306, 310, 2, 1>>, <<313, 327, 2, 1>>, <<330, 374, 2, 1>>,
    <<376, 376, 1, -121>>, <<377, 381, 2, 1>>, <<385, 385, 1, 210>>, <<386, 388, 2, 1>>,
    <<390, 390, 1, 206>>, <<391, 391, 1, 1>>, <<393, 394, 1, 205>>, <<395, 395, 1, 1>>,
    <<398, 398, 1, 79>>, <<399, 399, 1, 202>>, <<400, 400, 1, 203>>, <<401, 401, 1, 1>>,
    <<403, 403, 1, 205>>, <<404, 404, 1, 207>>, <<406, 406, 1, 211>>, <<407, 407, 1, 209>>,
    <<408, 408, 1, 1>>, <<412, 412, 1, 211>>, <<413, 413, 1, 213>>, <<415, 415, 1, 214>>,
    <<416, 420, 2, 1>>, <<422, 422, 1, 218>>, <<423, 423, 1, 1>>, <<425, 425, 1, 218>>,
    <<428, 428, 1, 1>>, <<430, 430, 1, 218>>, <<431, 431, 1, 1>>, <<433, 434, 1, 217>>,
    <<435, 437, 2, 1>>, <<439, 439, 1, 219>>, <<440, 440, 1, 1>>, <<444, 444, 1, 1>>,
    <<452, 452, 1, 2>>, <<453, 453, 1, 1>>, <<455, 455, 1, 2>>, <<456, 456, 1, 1>>,
    <<458, 458, 1, 2>>, <<459, 475, 2, 1>>, <<478, 494, 2, 1>>, <<497, 497, 1, 2>>,
    <<498, 500, 2, 1>>, <<502, 502, 1, -97>>, <<503, 503, 1, -56>>, <<504, 542, 2, 1>>,
    <<544, 544, 1, -130>>, <<546, 562, 2, 1>>, <<570, 570, 1, 10795>>, <<571, 571, 1, 1>>,
    <<573, 573, 1, -163>>, <<574, 574, 1, 10792>>, <<577, 577, 1, 1>>,
    <<579, 579, 1, -195>>, <<580, 580, 1, 69>>, <<581, 581, 1, 71>>, <<582, 590, 2, 1>>,
    <<880, 882, 2, 1>>, <<886, 886, 1, 1>>, <<895, 895, 1, 116>>, <<902, 902, 1, 38>>,
    <<904, 906, 1, 37>>, <<908, 908, 1, 64>>, <<910, 911, 1, 63>>, <<913, 929, 1, 32>>,
    <<931, 939, 1, 32>>, <<975, 975, 1, 8>>, <<984, 1006, 2, 1>>, <<1012, 1012, 1, -60>>,
    <<1015, 1015, 1, 1>>, <<1017, 1017, 1, -7>>, <<1018, 1018, 1, 1>>,
    <<1021, 1023, 1, -130>>, <<1024, 1039, 1, 80>>, <<1040, 1071, 1, 32>>,
    <<1120, 1152, 2, 1>>, <<1162, 1214, 2, 1>>, <<1216, 1216, 1, 15>>,
    <<1217, 1229, 2, 1>>, <<1232, 1326, 2, 1>>, <<1329, 1366, 1, 48>>,
    <<4256, 4293, 1, 7264>>, <<4295, 4295, 1, 7264>>, <<4301, 4301, 1, 7264>>,
    <<5024, 5103, 1, 38864>>, <<5104, 5109, 1, 8>>, <<7312, 7354, 1, -3008>>,
    <<7357, 7359, 1, -3008>>, <<7680, 7828, 2, 1>>, <<7838, 7838, 1, -7615>>,
    <<7840, 7934, 2, 1>>, <<7944, 7951, 1, -8>>, <<7960, 7965, 1, -8>>,
    <<7976, 7983, 1, -8>>, <<7992, 7999, 1, -8>>, <<8008, 8013, 1, -8>>,
    <<8025, 8031, 2, -8>>, <<8040, 8047, 1, -8>>, <<8072, 8079, 1, -8>>,
    <<8088, 8095, 1, -8>>, <<8104, 8111, 1, -8>>, <<8120, 8121, 1, -8>>,
    <<8122, 8123, 1, -74>>, <<8124, 8124, 1, -9>>, <<8136, 8139, 1, -86>>,
    <<8140, 8140, 1, -9>>, <<8152, 8153, 1, -8>>, <<8154, 8155, 1, -100>>,
    <<8168, 8169, 1, -8>>, <<8170, 8171, 1, -112>>, <<8172, 8172, 1, -7>>,
    <<8184, 8185, 1, -128>>, <<8186, 8187, 1, -126>>, <<8188, 8188, 1, -9>>,
    <<8486, 8486, 1, -7517>>, <<8490, 8490, 1, -8383>>, <<8491, 8491, 1, -8262>>,
    <<8498, 8498, 1, 28>>, <<8544, 8559, 1, 16>>, <<8579, 8579, 1, 1>>,
    <<9398, 9423, 1, 26>>, <<11264, 11311, 1, 48>>, <<11360, 11360, 1, 1>>,
    <<11362, 11362, 1, -10743>>, <<11363, 11363, 1, -3814>>, <<11364, 11364, 1, -10727>>,
    <<11367, 11371, 2, 1>>, <<11373, 11373, 1, -10780>>, <<11374, 11374, 1, -10749>>,
    <<11375, 11375, 1, -10783>>, <<11376, 11376, 1, -10782>>, <<11378, 11378, 1, 1>>,
    <<11381, 11381, 1, 1>>, <<11390, 11391, 1, -10815>>, <<11392, 11490, 2, 1>>,
    <<11499, 11501, 2, 1>>, <<11506, 11506, 1, 1>>, <<42560, 42604, 2, 1>>,
    <<42624, 42650, 2, 1>>, <<42786, 42798, 2, 1>>, <<42802, 42862, 2, 1>>,
    <<42873, 42875, 2, 1>>, <<42877, 42877, 1, -35332>>, <<42878, 42886, 2, 1>>,
    <<42891, 42891, 1, 1>>, <<42893, 42893, 1, -42280>>, <<42896, 42898, 2, 1>>,
    <<42902, 42920, 2, 1>>, <<42922, 42922, 1, -42308>>, <<42923, 42923, 1, -42319>>,
    <<42924, 42924, 1, -42315>>, <<42925, 42925, 1, -42305>>, <<42926, 42926, 1, -42308>>,
    <<42928, 42928, 1, -42258>>, <<42929, 42929, 1, -42282>>, <<42930, 42930, 1, -42261>>,
    <<42931, 42931, 1, 928>>, <<42932, 42946, 2, 1>>, <<42948, 42948, 1, -48>>,
    <<42949, 42949, 1, -42307>>, <<42950, 42950, 1, -35384>>, <<42951, 42953, 2, 1>>,
    <<42960, 42960, 1, 1>>, <<42966, 42968, 2, 1>>, <<42997, 42997, 1, 1>>,
    <<65313, 65338, 1, 32>>, <<66560, 66599, 1, 40>>, <<66736, 66771, 1, 40>>,
    <<66928, 66938, 1, 39>>, <<66940, 66954, 1, 39>>, <<66956, 66962, 1, 39>>,
    <<66964, 66965, 1, 39>>, <<68736, 68786, 1, 64>>, <<71840, 71871, 1, 32>>,
    <<93760, 93791, 1, 32>>, <<125184, 125217, 1, 34>> >>

\* unicode.ToLower outside ASCII
ToLowerRune(r) ==
    IF \E k \in 1..Len(LowerRanges) :
           /\ LowerRanges[k][1] <= r /\ r <= LowerRanges[k][2]
           /\ (r - LowerRanges[k][1]) % LowerRanges[k][3] = 0
    THEN r + LowerRanges[CHOOSE k \in 1..Len(LowerRanges) :
                             /\ LowerRanges[k][1] <= r /\ r <= LowerRanges[k][2]
                             /\ (r - LowerRanges[k][1]) % LowerRanges[k][3] = 0][4]
    ELSE r

\* unicode.ToLower of an ASCII byte
LowerChar(c) ==
    CASE c = "A" -> "a" [] c = "B" -> "b" [] c = "C" -> "c" [] c = "D" -> "d"
      [] c = "E" -> "e" [] c = "F" -> "f" [] c = "G" -> "g" [] c = "H" -> "h"
      [] c = "I" -> "i" [] c = "J" -> "j" [] c = "K" -> "k" [] c = "L" -> "l"
      [] c = "M" -> "m" [] c = "N" -> "n" [] c = "O" -> "o" [] c = "P" -> "p"
      [] c = "Q" -> "q" [] c = "R" -> "r" [] c = "S" -> "s" [] c = "T" -> "t"
      [] c = "U" -> "u" [] c = "V" -> "v" [] c = "W" -> "w" [] c = "X" -> "x"
      [] c = "Y" -> "y" [] c = "Z" -> "z" [] OTHER -> c

RECURSIVE ToLowerFrom(_, _)
\* the lower case of the runes of cs from byte i on: a rune is decoded, mapped
\* and encoded again, a byte that starts no valid sequence becomes RuneError
\* (strings.Map)
ToLowerFrom(cs, i) ==
    IF i > Len(cs) THEN ""
    ELSE IF cs[i] \notin HighByteSet THEN LowerChar(cs[i]) \o ToLowerFrom(cs, i + 1)
    ELSE With(DecodeRune(cs, i), LAMBDA d :
             EncodeRune(ToLowerRune(d.rune)) \o ToLowerFrom(cs, i + d.size))

\* strings.ToLower
ToLower(str) == ToLowerFrom(Chars(str), 1)

GetUTLSClientHelloID(profile) ==
    LET p == ToLower(profile)
    IN  CASE p \in {"chrome", "chrome_auto"} -> "HelloChrome_Auto"
          [] p \in {"firefox", "firefox_auto"} -> "HelloFirefox_Auto"
          [] p \in {"safari", "safari_auto"} -> "HelloSafari_Auto"
          [] p \in {"edge", "edge_auto"} -> "HelloEdge_Auto"
          [] p \in {"ios", "ios_auto"} -> "HelloIOS_Auto"
          [] p \in {"android", "android_auto"} -> "HelloAndroid_11_OkHttp"
          [] OTHER -> "HelloChrome_Auto"

\* The one path that may hold a file; file is [exists, kind, mtime, desc], with
\* kind "peet" (decodes under both schemas), "custom" (decodes only as a
\* ClientHelloSpecFile) or "malformed" (decodes under neither).
SpecPath == "hello.json"

NoFile == [exists |-> FALSE, kind |-> "malformed", mtime |-> 0, desc |-> Nil]

FileAt(path, fs) == IF path = SpecPath THEN fs ELSE NoFile

\* time.Time.Unix(): whole seconds of a time given in clock ticks
Unix(t) == t \div TicksPerSecond

\* CacheKeyForFile: [err, key]; the SHA-256 of "file:<path>:<unix mtime>" is
\* kept as the tuple it hashes, <<>> is the empty key
CacheKeyForFile(filePath, fs) ==
    LET f == FileAt(filePath, fs)
    IN  IF ~f.exists THEN [err |-> TRUE, key |-> <<>>]
        ELSE [err |-> FALSE, key |-> <<"file", filePath, Unix(f.mtime)>>]

\* CacheKeyForProfile: the SHA-256 of "profile:<name>:<server>" is kept as the
\* text it hashes
CacheKeyForProfile(profileName, serverName) ==
    "profile:" \o profileName \o ":" \o serverName

\* InitGlobalCache: the cache it installs
InitGlobalCache(config, t) == NewLRUCache(config, t)

\* GetGlobalCache: [cache, once]; the first call stores a default cache
GetGlobalCache(gc, once, t) ==
    IF once THEN [cache |-> gc, once |-> TRUE]
    ELSE [cache |-> NewLRUCache(DefaultCacheConfig, t), once |-> TRUE]

\* ja3.GetBrowserJA3, whose code is not among the sources: the catalog lookup
ja3GetBrowserJA3(profileName) == GetBrowserJA3(profileName)

\* ja3.LoadClientHelloSpecFromFile: [err, specFile]
LoadClientHelloSpecFromFile(filename, fs) ==
    LET f == FileAt(filename, fs)
    IN  IF ~f.exists THEN [err |-> "read", specFile |-> Nil]
        ELSE IF f.kind = "malformed" THEN [err |-> "unmarshal", specFile |-> Nil]
        ELSE [err |-> "", specFile |-> f.desc]

(***************************************************************************)
(* The dialers and the file parser, as calls that goroutines make step by  *)
(* step.  A call is a frame: the position pc in the code, the arguments,   *)
(* the local variables, and steps, the operations attempted so far on the  *)
(* network and the raw stream together with the spec selection and its     *)
(* application.  A Go pointer is an address: the caches are the objects of *)
(* a heap (address 0 is nil), and every ClientHelloSpec a builder          *)
(* allocates gets the next address of its own, which is what a cache       *)
(* stores and hands out.  The deadline of the context is "none", "future"  *)
(* or "past"; a future deadline can pass while the call is under way.      *)
(***************************************************************************)
\* The if-chain that picks the ClientHello source.
chosenSourceJA3First(c) ==
    IF c.JA3 # "" THEN "ja3"
    ELSE IF c.ClientHelloSpecFile # "" THEN "file"
    ELSE IF c.BrowserProfile # "" THEN "profile"
    ELSE "default"

chosenSource(c) ==
    IF c.ClientHelloSpecFile # "" THEN "file"
    ELSE IF c.JA3 # "" THEN "ja3"
    ELSE IF c.BrowserProfile # "" THEN "profile"
    ELSE "default"

\* What a branch of the chain yields: [err, source, helloID, spec]
selection(src, e, id, spec) == [err |-> e, source |-> src, helloID |-> id, spec |-> spec]

\* The JA3 branch, falling back to the built-in default on a malformed string.
selectJA3OrDefault(c) ==
    With(ParseJA3(Chars(c.JA3)), LAMBDA p :
        IF p.err # "" THEN selection("default", "", "HelloChrome_Auto", Nil)
        ELSE With(BuildClientHelloSpecFromJA3(p.data, c.ServerName), LAMBDA b :
            IF b.err # "" THEN selection("ja3", "build", "", Nil)
            ELSE selection("ja3", "", "HelloCustom", b.spec)))

\* The JA3 branch.
selectJA3(c) ==
    With(ParseJA3(Chars(c.JA3)), LAMBDA p :
        IF p.err # "" THEN selection("ja3", "parseJA3", "", Nil)
        ELSE With(BuildClientHelloSpecFromJA3(p.data, c.ServerName), LAMBDA b :
            IF b.err # "" THEN selection("ja3", "build", "", Nil)
            ELSE selection("ja3", "", "HelloCustom", b.spec)))

\* The profile branch: a name of the catalog, else a built-in ClientHelloID.
selectProfile(pkg, c) ==
    With(IF pkg = "fingerprint" THEN GetBrowserJA3(c.BrowserProfile)
         ELSE ja3GetBrowserJA3(c.BrowserProfile), LAMBDA ja3String :
        IF ja3String = ""
        THEN selection("profile", "", GetUTLSClientHelloID(c.BrowserProfile), Nil)
        ELSE With(ParseJA3(Chars(ja3String)), LAMBDA p :
            IF p.err # "" THEN selection("profile", "parseJA3", "", Nil)
            ELSE With(BuildClientHelloSpecFromJA3(p.data, c.ServerName), LAMBDA b :
                IF b.err # "" THEN selection("profile", "build", "", Nil)
                ELSE selection("profile", "", "HelloCustom", b.spec))))

\* The branches of the chain that read no file.
selectSpec(pkg, c, src) ==
    CASE src = "ja3" -> selectJA3(c)
      [] src = "profile" -> selectProfile(pkg, c)
      [] OTHER -> selection("default", "", "HelloChrome_Auto", Nil)

\* rawConn.Close() before an error return at the given stage
closesAfterExceptApply(entry, stage) == entry = "dial" /\ stage # "apply"

closesAfter(entry, stage) == entry = "dial"

\* The handshake started before ApplyPreset.
handshakeThenApply(steps, custom) == steps \o <<"handshake", "apply">>

\* uconn.ApplyPreset(customSpec), for a custom spec only, then the start of
\* uconn.HandshakeContext(ctx): the steps after them
applyThenHandshake(steps, custom) ==
    (IF custom THEN steps \o <<"apply">> ELSE steps) \o <<"handshake">>

\* a goroutine inside no call
NoCall ==
    [pc |-> "idle", pkg |-> "", entry |-> "", c |-> Nil, deadline0 |-> "none",
     deadline |-> "none", steps |-> <<>>, source |-> "", helloID |-> "", spec |-> Nil,
     addr |-> 0, path |-> "", key |-> <<>>, cache |-> 0, found |-> Nil, hit |-> FALSE,
     perr |-> "",
     counters0 |-> <<0, 0, 0>>, second |-> FALSE, alone |-> TRUE, file0 |-> Nil,
     changed |-> FALSE]

\* the frame of a call of an entry point of package pkg at its first statement
Call(pkg, entry, c, deadline) ==
    [NoCall EXCEPT !.pc = "entered", !.pkg = pkg, !.entry = entry, !.c = c,
                   !.deadline0 = deadline, !.deadline = deadline]

\* fingerprint.ParseClientHelloJSON(filePath) called in the frame fr: the
\* frame at the first statement of the function
ParseClientHelloJSON(fr, filePath) == [fr EXCEPT !.pc = "stat", !.path = filePath]

\* ja3.ParseClientHelloJSON, whose code is not among the sources: the cached
\* file parse of the specification
ja3ParseClientHelloJSON(fr, filePath) == ParseClientHelloJSON(fr, filePath)

\* <<hits, misses, evictions>> of the cache at address g of the heap
counters(heap, g) ==
    IF g = 0 THEN <<0, 0, 0>> ELSE <<heap[g].hits, heap[g].misses, heap[g].evictions>>

\* What a call returns from the frame fr with error e at the given stage; an
\* error return after rawConn exists, at a stage where closesAfter holds,
\* closes the raw stream first.  after are the counters of the global cache
\* at the return and fs the file then.
outcome(fr, e, timeout, stage, after, fs) ==
    [pkg |-> fr.pkg, entry |-> fr.entry, config |-> fr.c, deadline |-> fr.deadline0,
     err |-> e, isTimeout |-> timeout,
     steps |-> IF e # "" /\ stage \notin {"entry", "dial"} /\ closesAfter(fr.entry, stage)
               THEN fr.steps \o <<"close">> ELSE fr.steps,
     source |-> fr.source, helloID |-> fr.helloID, spec |-> fr.spec, addr |-> fr.addr,
     nextProtos |-> IF fr.c = Nil THEN <<>> ELSE fr.c.ALPNProtocols,
     hit |-> fr.hit, second |-> fr.second, alone |-> fr.alone,
     delta |-> [i \in 1..3 |-> after[i] - fr.counters0[i]],
     file0 |-> fr.file0, changed |-> fr.changed, quiet |-> fs = fr.file0]

(***************************************************************************)
(* SpecBuild: BuildClientHelloSpecFromJA3 on drawn inputs.  The ids drawn  *)
(* are every case label of buildExtension, the GREASE value 0x0a0a (2570)  *)
(* and one more unassigned id (17513).                                     *)
(***************************************************************************)
KnownExtIds == {0, 5, 10, 11, 13, 16, 18, 21, 23, 27, 35, 43, 45, 51, 65281}

DrawnExtIds == KnownExtIds \cup {2570, 17513}

DrawnCiphers == {4865, 2570}

DrawnJA3Data ==
    [Version : {771},
     CipherSuites : SeqsUpTo(DrawnCiphers, MaxCipherLen),
     Extensions : SeqsUpTo(DrawnExtIds, MaxExtLen),
     SupportedGroups : {<<>>, <<29, 23>>},
     EllipticCurvePoint : {<<>>, <<0>>}]

InitOthersIdle ==
    /\ lru = Nil /\ now = 0 /\ lastOp = Nil /\ run = Nil
    /\ globalCache = Nil /\ onceDone = FALSE
    /\ file = Nil /\ cfg = Nil /\ last = Nil /\ nops = 0 /\ everSet = {} /\ threads = Nil

InitBuild ==
    /\ bIn \in [data : DrawnJA3Data, serverName : {"", "example.com"}]
    /\ bOut = Nil
    /\ InitOthersIdle

Build ==
    /\ bOut = Nil
    /\ bOut' = BuildClientHelloSpecFromJA3(bIn.data, bIn.serverName).spec
    /\ UNCHANGED <<threads, bIn, lru, now, lastOp, run, globalCache, onceDone, file, cfg, last, nops, everSet>>

NextBuild == Build

SpecBuild == InitBuild /\ [][NextBuild]_vars

ExtIdsOf(spec) == [i \in 1..Len(spec.Extensions) |-> spec.Extensions[i].id]

\* C9: the built spec has one extension per JA3 extension id, the i-th carrying
\* the i-th id; an id outside buildExtension's cases (GREASE included) yields
\* Generic(id) at its index; the cipher list equals the JA3's, element for element.
C9_ExtensionOrderPreserved ==
    bOut # Nil =>
        /\ ExtIdsOf(bOut) = bIn.data.Extensions
        /\ \A i \in 1..Len(bIn.data.Extensions) :
              bIn.data.Extensions[i] \notin KnownExtIds =>
                  bOut.Extensions[i] = GenericExtension(bIn.data.Extensions[i])
        /\ bOut.CipherSuites = bIn.data.CipherSuites

C9_Witness ==
    /\ bOut # Nil
    /\ bIn.data.Extensions = <<16, 2570>>
    /\ bOut.Extensions[2] = GenericExtension(2570)
    /\ bOut.Extensions[1].type = "ALPN"
    /\ bOut.CipherSuites = <<4865, 2570>>

\* C10: a built spec holds ServerName(server_name) at the position of id 0 when
\* server_name is non-empty, and no extension with id 0 when it is empty.
C10_SNIOnlyWithServerName ==
    bOut # Nil =>
        /\ bIn.serverName # "" =>
              \A i \in 1..Len(bIn.data.Extensions) :
                  bIn.data.Extensions[i] = 0 =>
                      /\ i <= Len(bOut.Extensions)
                      /\ bOut.Extensions[i] = Ext("SNI", <<bIn.serverName>>)
        /\ bIn.serverName = "" =>
              \A i \in 1..Len(bOut.Extensions) : bOut.Extensions[i].id # 0

(***************************************************************************)
(* SpecDescriptor: the two JSON builders on drawn descriptors.  bIn is the *)
(* decoded descriptor and the server name, bOut the builder that ran and   *)
(* the spec it returned.                                                   *)
(***************************************************************************)
DrawnExtObjects ==
    { [ExtJSON("server_name (0)") EXCEPT !.ServerName = "peet.example"],
      [ExtJSON("supported_groups (10)") EXCEPT !.SupportedGroups = <<"X25519 (29)">>],
      [ExtJSON("application_layer_protocol_negotiation (16)") EXCEPT
           !.Protocols = <<"h2">>],
      ExtJSON("session_ticket (35)"),
      ExtJSON("key_share (51)"),
      ExtJSON("extended_master_secret (23)"),
      ExtJSON("signed_certificate_timestamp (18)"),
      ExtJSON("renegotiation_info (65281)"),
      [ExtJSON("padding (21)") EXCEPT !.PaddingDataLength = 1] }

DrawnDescriptors ==
    [ciphers : {<<"TLS_AES_128_GCM_SHA256">>},
     version : {"TLS 1.2"},
     extensions : SeqsUpTo(DrawnExtObjects, MaxDescLen)]

InitDescriptor ==
    /\ bIn \in [desc : DrawnDescriptors, serverName : DrawnServerNames]
    /\ bOut = Nil
    /\ InitOthersIdle

BuildFromJSON ==
    /\ bOut = Nil
    /\ bOut' = [builder |-> "json", spec |-> BuildClientHelloSpecFromJSON(bIn.desc)]
    /\ UNCHANGED <<threads, bIn, lru, now, lastOp, run, globalCache, onceDone, file, cfg, last, nops, everSet>>

BuildFromFile ==
    /\ bOut = Nil
    /\ bOut' = [builder |-> "file",
                spec |-> BuildClientHelloSpecFromFile(bIn.desc, bIn.serverName).spec]
    /\ UNCHANGED <<threads, bIn, lru, now, lastOp, run, globalCache, onceDone, file, cfg, last, nops, everSet>>

NextDescriptor == BuildFromJSON \/ BuildFromFile

SpecDescriptor == InitDescriptor /\ [][NextDescriptor]_vars

\* the extension type an array element of the given name is emitted as: the
\* type of the case its name enters
EmittedType(name) ==
    With(firstWord(name, jsonSwitchWords), LAMBDA w :
        CASE w = "server_name" -> "SNI"
          [] w = "supported_groups" -> "SupportedCurves"
          [] w = "ec_point_formats" -> "SupportedPoints"
          [] w = "application_layer_protocol_negotiation" -> "ALPN"
          [] w = "signature_algorithms" -> "SignatureAlgorithms"
          [] w = "supported_versions" -> "SupportedVersions"
          [] w = "key_share" -> "KeyShare"
          [] w = "psk_key_exchange_modes" -> "PSKKeyExchangeModes"
          [] w = "session_ticket" -> "SessionTicket"
          [] w = "status_request" -> "StatusRequest"
          [] w = "signed_certificate_timestamp" -> "SCT"
          [] w = "extended_master_secret" -> "ExtendedMasterSecret"
          [] w \in {"renegotiation_info", "extensionRenegotiationInfo"} ->
                 "RenegotiationInfo"
          [] w = "padding" -> "Padding"
          [] OTHER -> "none")

\* e is t with some elements left out, the others in t's order
IsSubsequence(e, t) ==
    \E f \in [1..Len(e) -> 1..Len(t)] :
        /\ \A i \in 1..Len(e) : e[i] = t[f[i]]
        /\ \A i, j \in 1..Len(e) : i < j => f[i] < f[j]

\* C13: under both schemas the types of the extensions of the built spec are
\* the types of the descriptor's extension array in array order, with the
\* elements that emit nothing left out.
C13_DescriptorOrderKept ==
    bOut # Nil =>
        IsSubsequence([i \in 1..Len(bOut.spec.Extensions) |-> bOut.spec.Extensions[i].type],
                      [i \in 1..Len(bIn.desc.extensions) |->
                          EmittedType(bIn.desc.extensions[i].Name)])

(***************************************************************************)
(* SpecJA3: ParseJA3 on drawn strings.  A drawn input is a list of fields, *)
(* each a list of tokens; the string parsed is the tokens joined by '-'    *)
(* and the fields joined by ','.  bIn is the input, bOut what ParseJA3     *)
(* returned.                                                               *)
(***************************************************************************)
RECURSIVE JoinRange(_, _, _, _)
\* strings.Join of the parts lo..hi, as characters (halving the range)
JoinRange(parts, sep, lo, hi) ==
    IF lo > hi THEN <<>>
    ELSE IF lo = hi THEN parts[lo]
    ELSE JoinRange(parts, sep, lo, (lo + hi) \div 2) \o <<sep>>
             \o JoinRange(parts, sep, (lo + hi) \div 2 + 1, hi)

Join(parts, sep) == JoinRange(parts, sep, 1, Len(parts))

DrawnJA3Fields ==
    {<<>>, <<"0">>, <<"7">>, <<"7", "256">>, <<"65536">>, <<"7", "x">>, <<"7", "">>}

DrawnJA3Inputs ==
    [1..5 -> DrawnJA3Fields]
        \cup UNION {[1..k -> {<<>>, <<"7">>}] : k \in (1..MaxFields) \ {5}}

\* the JA3 string of a drawn input
JA3String(fields) ==
    Join([i \in 1..Len(fields) |->
              Join([j \in 1..Len(fields[i]) |-> Chars(fields[i][j])], "-")], ",")

InitJA3 ==
    /\ bIn \in DrawnJA3Inputs
    /\ bOut = Nil
    /\ InitOthersIdle

CallParseJA3 ==
    /\ bOut = Nil
    /\ bOut' = ParseJA3(JA3String(bIn))
    /\ UNCHANGED <<threads, bIn, lru, now, lastOp, run, globalCache, onceDone, file, cfg, last, nops, everSet>>

NextJA3 == CallParseJA3

SpecJA3 == InitJA3 /\ [][NextJA3]_vars

\* the number a drawn token writes in decimal, -1 for a token that is no decimal
TokenValue(tok) ==
    CASE tok = "0" -> 0 [] tok = "7" -> 7 [] tok = "256" -> 256
      [] tok = "65536" -> 65536 [] OTHER -> -1

FieldWidth(i) == IF i = 5 THEN 8 ELSE 16

TokenFits(tok, i) == TokenValue(tok) \in 0..(2 ^ FieldWidth(i) - 1)

FieldValues(field) == [j \in 1..Len(field) |-> TokenValue(field[j])]

\* the JA3Data a five-field input denotes, its version field one decimal
JA3DataOf(fields) ==
    [Version |-> IF fields[1] = <<>> THEN 0 ELSE TokenValue(fields[1][1]),
     CipherSuites |-> FieldValues(fields[2]), Extensions |-> FieldValues(fields[3]),
     SupportedGroups |-> FieldValues(fields[4]),
     EllipticCurvePoint |-> FieldValues(fields[5])]

\* C15: ParseJA3 fails exactly when the string does not split on ',' into
\* five fields, or its non-empty version field is not one decimal fitting 16
\* bits, or a non-empty list field has a '-'-separated token that is not a
\* decimal fitting the field's width (16 bits, 8 bits for the point formats);
\* otherwise it returns the version, 0 for an empty version field, and the
\* lists in order, an empty field giving an empty list.
C15_ParseJA3FailsExactly ==
    bOut # Nil =>
        /\ bOut.err # "" <=>
              \/ Len(bIn) # 5
              \/ bIn[1] # <<>> /\ ~(Len(bIn[1]) = 1 /\ TokenFits(bIn[1][1], 1))
              \/ \E i \in 2..5 : \E j \in 1..Len(bIn[i]) : ~TokenFits(bIn[i][j], i)
        /\ bOut.err = "" => bOut.data = JA3DataOf(bIn)

C15_Witness ==
    /\ bOut # Nil /\ bOut.err = ""
    /\ bIn = <<<<"7">>, <<>>, <<"7", "256">>, <<"0">>, <<"7">>>>
    /\ bOut.data.CipherSuites = <<>> /\ bOut.data.Extensions = <<7, 256>>

\* C15 as stated, the version field split on '-' like the list fields:
\* ParseJA3 fails exactly when the string has not five fields or some token of
\* a non-empty field is not a decimal fitting the field's width.
C15_EveryFieldSplits ==
    bOut # Nil =>
        ( bOut.err # "" <=>
              \/ Len(bIn) # 5
              \/ \E i \in 1..5 : \E j \in 1..Len(bIn[i]) : ~TokenFits(bIn[i][j], i) )

\* the strings of the drawn inputs
DrawnJA3Strings == {JA3String(f) : f \in DrawnJA3Inputs}

\* C16: parse has an inverse on the strings it accepts, as a serialize with
\* serialize(parse(x)) = x for every such x requires: no other drawn string
\* parses to the JA3Data that the parsed string gave.
C16_ParseHasInverse ==
    (bOut # Nil /\ bOut.err = "") =>
        \A y \in DrawnJA3Strings : ParseJA3(y) = bOut => y = JA3String(bIn)

(***************************************************************************)
(* JA4 codec (ja4.go).  A Go string is the sequence of its characters.     *)
(* The specification SpecJA4 draws a JA4Data or a JA4 string and runs      *)
(* GenerateJA4, ParseJA4String, or the round trip of TestRoundTripJA4.     *)
(***************************************************************************)
HexDigits == "0123456789abcdef"

\* fmt.Sprintf("%0<w>x", n) for n below 16^w
Sprintf0x(n, w) ==
    [i \in 1..w |-> With((n \div (16 ^ (w - i))) % 16,
                         LAMBDA d : SubSeq(HexDigits, d + 1, d + 1))]

(***************************************************************************)
(* crypto/sha256 (FIPS 180-4).  A 32-bit word is the pair <<high, low>> of *)
(* its 16-bit halves; a message is its sequence of bytes.                  *)
(***************************************************************************)
RECURSIVE xorBits(_, _, _)
\* the exclusive or of the n-bit numbers a and b, bit by bit
xorBits(a, b, n) ==
    IF n = 0 THEN 0 ELSE ((a + b) % 2) + 2 * xorBits(a \div 2, b \div 2, n - 1)

\* the exclusive or of the 4-bit numbers a and b, at index 16 * a + b + 1
XorNibbles == SubSeq([i \in 1..256 |-> xorBits((i - 1) \div 16, (i - 1) % 16, 4)], 1, 256)

\* the exclusive or of the bytes a and b, at index 256 * a + b + 1
XorBytes ==
    SubSeq([i \in 1..65536 |->
               XorNibbles[((i - 1) \div 4096) * 16 + (((i - 1) \div 16) % 16) + 1] * 16
                   + XorNibbles[(((i - 1) \div 256) % 16) * 16 + ((i - 1) % 16) + 1]],
           1, 65536)

Xor16(a, b) ==
    XorBytes[(a \div 256) * 256 + (b \div 256) + 1] * 256
        + XorBytes[(a % 256) * 256 + (b % 256) + 1]

\* a AND b, from a + b = (a XOR b) + 2 * (a AND b)
And16(a, b) == (a + b - Xor16(a, b)) \div 2

XorW(x, y) == <<Xor16(x[1], y[1]), Xor16(x[2], y[2])>>

AndW(x, y) == <<And16(x[1], y[1]), And16(x[2], y[2])>>

\* addition modulo 2^32
AddW(x, y) ==
    <<(x[1] + y[1] + ((x[2] + y[2]) \div 65536)) % 65536, (x[2] + y[2]) % 65536>>

\* the halves h, l rotated to the right by the bits that p = 2^n counts, n < 16
rotHalves(h, l, p) ==
    <<(h \div p) + (l % p) * (65536 \div p), (l \div p) + (h % p) * (65536 \div p)>>

\* rotation to the right by n bits, 0 < n < 32
Rotr(x, n) ==
    IF n < 16 THEN rotHalves(x[1], x[2], 2 ^ n) ELSE rotHalves(x[2], x[1], 2 ^ (n - 16))

\* the halves h, l shifted to the right by the bits that p = 2^n counts, n < 16
shrHalves(h, l, p) == <<h \div p, (l \div p) + (h % p) * (65536 \div p)>>

\* shift to the right by n bits, 0 < n < 16
Shr(x, n) == shrHalves(x[1], x[2], 2 ^ n)

BigSigma0(x) == XorW(XorW(Rotr(x, 2), Rotr(x, 13)), Rotr(x, 22))

BigSigma1(x) == XorW(XorW(Rotr(x, 6), Rotr(x, 11)), Rotr(x, 25))

SmallSigma0(x) == XorW(XorW(Rotr(x, 7), Rotr(x, 18)), Shr(x, 3))

SmallSigma1(x) == XorW(XorW(Rotr(x, 17), Rotr(x, 19)), Shr(x, 10))

\* (x AND y) XOR (NOT x AND z)
Ch(x, y, z) == XorW(z, AndW(x, XorW(y, z)))

\* (x AND y) XOR (x AND z) XOR (y AND z)
Maj(x, y, z) == XorW(AndW(x, y), AndW(z, XorW(x, y)))

Sha256K == <<
    <<17034, 12184>>, <<28983, 17553>>, <<46528, 64463>>, <<59829, 56229>>,
    <<14678, 49755>>, <<23025, 4593>>, <<37439, 33444>>, <<43804, 24277>>,
    <<55303, 43672>>, <<4739, 23297>>, <<9265, 34238>>, <<21772, 32195>>, <<29374, 23924>>,
    <<32990, 45566>>, <<39900, 1703>>, <<49563, 61812>>, <<58523, 27073>>,
    <<61374, 18310>>, <<4033, 40390>>, <<9228, 41420>>, <<11753, 11375>>, <<19060, 33962>>,
    <<23728, 43484>>, <<30457, 35034>>, <<38974, 20818>>, <<43057, 50797>>,
    <<45059, 10184>>, <<48985, 32711>>, <<50912, 3059>>, <<54695, 37191>>, <<1738, 25425>>,
    <<5161, 10599>>, <<10167, 2693>>, <<11803, 8504>>, <<19756, 28156>>, <<21304, 3347>>,
    <<25866, 29524>>, <<30314, 2747>>, <<33218, 51502>>, <<37490, 11397>>,
    <<41663, 59553>>, <<43034, 26187>>, <<49739, 35696>>, <<51052, 20899>>,
    <<53650, 59417>>, <<54937, 1572>>, <<62478, 13701>>, <<4202, 41072>>, <<6564, 49430>>,
    <<7735, 27656>>, <<10056, 30540>>, <<13488, 48309>>, <<14620, 3251>>, <<20184, 43594>>,
    <<23452, 51791>>, <<26670, 28659>>, <<29839, 33518>>, <<30885, 25455>>,
    <<33992, 30740>>, <<36039, 520>>, <<37054, 65530>>, <<42064, 27883>>, <<48889, 41975>>,
    <<50801, 30962>> >>

Sha256Init == <<
    <<27145, 58983>>, <<47975, 44677>>, <<15470, 62322>>, <<42319, 62778>>,
    <<20750, 21119>>, <<39685, 26764>>, <<8067, 55723>>, <<23520, 52505>> >>

\* the message with its padding: the byte 128, zeros up to 56 modulo 64, and
\* the length in bits as 8 bytes
Sha256Padded(msg) ==
    With(Len(msg), LAMBDA n :
        SubSeq(msg, 1, n) \o <<128>> \o [i \in 1..((119 - n) % 64) |-> 0]
            \o <<0, 0, 0, 0>>
            \o <<(n * 8) \div 16777216, ((n * 8) \div 65536) % 256,
                 ((n * 8) \div 256) % 256, (n * 8) % 256>>)

\* word t (from 0) of the block that starts after byte off of the padded bytes
blockWord(bytes, off, t) ==
    <<bytes[off + 4 * t + 1] * 256 + bytes[off + 4 * t + 2],
      bytes[off + 4 * t + 3] * 256 + bytes[off + 4 * t + 4]>>

RECURSIVE Sha256Schedule(_, _, _)
\* the message schedule ws extended by its words lo..hi (counted from 1), each
\* from the words before it; the range is halved to keep the evaluation shallow
Sha256Schedule(ws, lo, hi) ==
    IF lo = hi
    THEN Append(ws, AddW(AddW(SmallSigma1(ws[lo - 2]), ws[lo - 7]),
                         AddW(SmallSigma0(ws[lo - 15]), ws[lo - 16])))
    ELSE With(Sha256Schedule(ws, lo, (lo + hi) \div 2),
              LAMBDA m : Sha256Schedule(m, (lo + hi) \div 2 + 1, hi))

\* one round on the working variables v = <<a, b, c, d, e, f, g, h>>
Sha256Round(v, k, w) ==
    With(AddW(AddW(AddW(v[8], BigSigma1(v[5])), AddW(Ch(v[5], v[6], v[7]), k)), w),
         LAMBDA t1 :
             <<AddW(t1, AddW(BigSigma0(v[1]), Maj(v[1], v[2], v[3]))),
               v[1], v[2], v[3], AddW(v[4], t1), v[5], v[6], v[7]>>)

RECURSIVE Sha256Rounds(_, _, _, _)
\* the rounds lo..hi on the working variables v
Sha256Rounds(v, ws, lo, hi) ==
    IF lo = hi THEN Sha256Round(v, Sha256K[lo], ws[lo])
    ELSE With(Sha256Rounds(v, ws, lo, (lo + hi) \div 2),
              LAMBDA m : Sha256Rounds(m, ws, (lo + hi) \div 2 + 1, hi))

\* the hash value after block b (from 1) of the padded bytes
Sha256Block(h, bytes, b) ==
    With(Sha256Schedule(SubSeq([t \in 1..16 |-> blockWord(bytes, 64 * (b - 1), t - 1)],
                               1, 16), 17, 64), LAMBDA ws :
    With(Sha256Rounds(h, ws, 1, 64), LAMBDA v :
        SubSeq([i \in 1..8 |-> AddW(h[i], v[i])], 1, 8)))

RECURSIVE Sha256Blocks(_, _, _, _)
\* the hash value after the blocks lo..hi
Sha256Blocks(h, bytes, lo, hi) ==
    IF lo = hi THEN Sha256Block(h, bytes, lo)
    ELSE With(Sha256Blocks(h, bytes, lo, (lo + hi) \div 2),
              LAMBDA m : Sha256Blocks(m, bytes, (lo + hi) \div 2 + 1, hi))

\* sha256.Sum256(msg) as its eight words
Sha256(msg) ==
    With(Sha256Padded(msg), LAMBDA bytes :
        Sha256Blocks(Sha256Init, bytes, 1, Len(bytes) \div 64))

\* hex.EncodeToString(sha256.Sum256(pre))[:12]: the first six bytes of the
\* digest of the bytes of pre, as twelve lowercase hexadecimal digits
Sha256Hex12(pre) ==
    With(Sha256([i \in 1..Len(pre) |-> Ord(pre[i])]), LAMBDA h :
        Sprintf0x(h[1][1], 4) \o Sprintf0x(h[1][2], 4) \o Sprintf0x(h[2][1], 4))

formatTLSVersion(version) ==
    CASE version = 768 -> Chars("s3")
      [] version = 769 -> Chars("10")
      [] version = 770 -> Chars("11")
      [] version = 771 -> Chars("12")
      [] version = 772 -> Chars("13")
      [] OTHER -> Chars("00")

DecimalChars == Range(Chars("0123456789"))

HexLetterChars == Range(Chars("abcdefABCDEF"))

\* "i" for the empty name, for a name of digits and dots, and for a name of
\* hex digits and colons with at least one colon; "d" otherwise
determineSNIType(serverName) ==
    With(Range(Chars(serverName)),
         LAMBDA cs :
             IF serverName = "" THEN <<"i">>
             ELSE IF cs \subseteq (DecimalChars \cup {"."}) THEN <<"i">>
             ELSE IF ":" \in cs /\ cs \subseteq (DecimalChars \cup HexLetterChars \cup {":"})
                  THEN <<"i">>
             ELSE <<"d">>)

\* the comma-separated "%04x" string of a list of ids
IdString(ids) == Join([i \in 1..Len(ids) |-> Sprintf0x(ids[i], 4)], ",")

\* cipher suites are hashed in their original order
generateCipherHash(cipherSuites) ==
    IF Len(cipherSuites) = 0 THEN Sha256Hex12(<<>>)
    ELSE Sha256Hex12(IdString(cipherSuites))

IsNotSNIOrALPN(ext) == ext # 0 /\ ext # 16

\* the filtered extension ids as the code sorts them (mutant: sort left out)
filteredExtensionsUnsorted(extensions) == SelectSeq(extensions, IsNotSNIOrALPN)

\* SNI (0) and ALPN (16) filtered out, the rest sorted ascending
filteredExtensions(extensions) ==
    SortSeq(SelectSeq(extensions, IsNotSNIOrALPN), LAMBDA a, b : a < b)

generateExtensionHash(extensions) ==
    IF Len(extensions) = 0 THEN Sha256Hex12(<<>>)
    ELSE With(filteredExtensions(extensions),
              LAMBDA filtered :
                  IF Len(filtered) = 0 THEN Sha256Hex12(<<>>)
                  ELSE Sha256Hex12(IdString(filtered)))

\* the count capped at 255
CapCount(n) == IF n > 255 THEN 255 ELSE n

\* GenerateJA4(data): [err, fp]
GenerateJA4(data) ==
    IF data = Nil THEN [err |-> "nil", fp |-> Nil]
    ELSE [err |-> "",
          fp |-> [Protocol |-> IF data.IsQUIC THEN <<"q">> ELSE <<"t">>,
                  TLSVersion |-> formatTLSVersion(data.TLSVersion),
                  SNI |-> determineSNIType(data.ServerName),
                  CipherCount |-> Sprintf0x(CapCount(Len(data.CipherSuites)), 2),
                  ExtensionCount |-> Sprintf0x(CapCount(Len(data.Extensions)), 2),
                  CipherHash |-> generateCipherHash(data.CipherSuites),
                  ExtensionHash |-> generateExtensionHash(data.Extensions),
                  RawCipherSuites |-> data.CipherSuites,
                  RawExtensions |-> data.Extensions,
                  HasSNI |-> data.ServerName # "",
                  ALPNProtocols |-> data.ALPNProtocols]]

\* part a of JA4Fingerprint.String()
PartA(j) == j.Protocol \o j.TLSVersion \o j.SNI \o j.CipherCount \o j.ExtensionCount

\* JA4Fingerprint.String()
String(j) == PartA(j) \o <<"_">> \o j.CipherHash \o <<"_">> \o j.ExtensionHash

validVersions == {Chars("10"), Chars("11"), Chars("12"), Chars("13"), Chars("00")}

\* the fingerprint ParseJA4String fills in from the three parts (part a of 8
\* characters or more)
ParsedFingerprint(parts) ==
    [Protocol |-> SubSeq(parts[1], 1, 1), TLSVersion |-> SubSeq(parts[1], 2, 3),
     SNI |-> SubSeq(parts[1], 4, 4), CipherCount |-> SubSeq(parts[1], 5, 6),
     ExtensionCount |-> SubSeq(parts[1], 7, 8),
     CipherHash |-> parts[2], ExtensionHash |-> parts[3],
     RawCipherSuites |-> <<>>, RawExtensions |-> <<>>, HasSNI |-> FALSE,
     ALPNProtocols |-> <<>>]

\* the validations of ParseJA4String, in the order of the code
ValidateFingerprint(fp) ==
    IF fp.Protocol # <<"q">> /\ fp.Protocol # <<"t">>
    THEN [panic |-> FALSE, err |-> "protocol", fp |-> Nil]
    ELSE IF fp.TLSVersion \notin validVersions
    THEN [panic |-> FALSE, err |-> "version", fp |-> Nil]
    ELSE IF fp.SNI # <<"d">> /\ fp.SNI # <<"i">>
    THEN [panic |-> FALSE, err |-> "sni", fp |-> Nil]
    ELSE IF Len(fp.CipherHash) # 12
    THEN [panic |-> FALSE, err |-> "cipher hash", fp |-> Nil]
    ELSE IF Len(fp.ExtensionHash) # 12
    THEN [panic |-> FALSE, err |-> "extension hash", fp |-> Nil]
    ELSE [panic |-> FALSE, err |-> "", fp |-> fp]

\* ParseJA4String(ja4String): [panic, err, fp].  The slice partA[6:8] of a
\* part a of exactly 7 characters is out of range: a run-time panic.
ParseJA4Parts(parts) ==
    IF Len(parts) # 3 THEN [panic |-> FALSE, err |-> "format", fp |-> Nil]
    ELSE IF Len(parts[1]) < 7 THEN [panic |-> FALSE, err |-> "short", fp |-> Nil]
    ELSE IF Len(parts[1]) < 8 THEN [panic |-> TRUE, err |-> "", fp |-> Nil]
    ELSE With(ParsedFingerprint(parts), ValidateFingerprint)

ParseJA4String(ja4String) == With(Split(ja4String, "_"), ParseJA4Parts)

JA4CipherIds == {4865, 49199}

JA4ExtensionIds == {0, 16, 10, 51}

\* the summary of TestGenerateJA4 "Chrome TLS 1.3 TCP" and TestRoundTripJA4
TestCipherSuites == <<4865, 4866, 4867, 49199>>

TestExtensions == <<0, 10, 11, 13, 16, 23, 43, 51>>

\* the same extensions in another order
TestExtensionsShuffled == <<51, 16, 43, 0, 23, 13, 11, 10>>

\* the same cipher suites in another order
TestCipherSuitesShuffled == <<49199, 4865, 4867, 4866>>

\* a list longer than a two-digit hex count can tell
LongList(id) == [i \in 1..LongLen |-> id]

\* Every header with two pairs of lists; every drawn cipher list and every
\* drawn extension list under one header; the lists of the tests.
DrawnJA4Data ==
    [IsQUIC : BOOLEAN, TLSVersion : {768, 771, 772, 39321},
     ServerName : {"", "example.com", "192.168.1.1", "2001:db8::1"},
     CipherSuites : {<<>>}, Extensions : {<<>>},
     ALPNProtocols : {<<>>, <<"h2">>}, SupportedGroups : {<<>>}]
    \cup [IsQUIC : BOOLEAN, TLSVersion : {768, 771, 772, 39321},
          ServerName : {"", "example.com", "192.168.1.1", "2001:db8::1"},
          CipherSuites : {<<4865>>}, Extensions : {<<0, 16>>},
          ALPNProtocols : {<<>>, <<"h2">>}, SupportedGroups : {<<>>}]
    \cup [IsQUIC : {FALSE}, TLSVersion : {772}, ServerName : {"example.com"},
          CipherSuites : SeqsUpTo(JA4CipherIds, MaxCipherLen), Extensions : {<<>>},
          ALPNProtocols : {<<"h2">>}, SupportedGroups : {<<>>}]
    \cup [IsQUIC : {FALSE}, TLSVersion : {772}, ServerName : {"example.com"},
          CipherSuites : {<<>>}, Extensions : SeqsUpTo(JA4ExtensionIds, MaxExtLen),
          ALPNProtocols : {<<"h2">>}, SupportedGroups : {<<>>}]
    \cup [IsQUIC : {FALSE}, TLSVersion : {772}, ServerName : {"example.com"},
          CipherSuites : {TestCipherSuites, TestCipherSuitesShuffled},
          Extensions : {TestExtensions, TestExtensionsShuffled},
          ALPNProtocols : {<<"h2">>}, SupportedGroups : {<<>>}]
    \cup [IsQUIC : {FALSE}, TLSVersion : {772}, ServerName : {"example.com"},
          CipherSuites : {LongList(4865)}, Extensions : {LongList(10)},
          ALPNProtocols : {<<"h2">>}, SupportedGroups : {<<>>}]

DrawnPartA ==
    {"t13d1516h2", "q13d0605h3", "t13d0408", "t00i0000", "t13d040", "t13d04",
     "x13d1516h2", "t99d1516h2", "ts3d1516h2", "t13x1516h2"}

DrawnHashes == {"8daaf6152771", "1eb898"}

\* strings of two, three and four underscore-separated parts
DrawnJA4Strings ==
    {Join([i \in 1..Len(p) |-> Chars(p[i])], "_") :
        p \in (DrawnPartA \X DrawnHashes) \cup (DrawnPartA \X DrawnHashes \X DrawnHashes)
              \cup (DrawnPartA \X DrawnHashes \X DrawnHashes \X DrawnHashes)}

InitJA4 ==
    /\ bIn \in [kind : {"data"}, data : DrawnJA4Data \cup {Nil}]
               \cup [kind : {"string"}, ja4String : DrawnJA4Strings]
    /\ bOut = Nil
    /\ InitOthersIdle

\* GenerateJA4(data) and, on success, String() of its result
CallGenerateJA4 ==
    /\ bOut = Nil /\ bIn.kind = "data"
    /\ \E r \in {GenerateJA4(bIn.data)} :
           bOut' = [op |-> "GenerateJA4", res |-> r,
                    str |-> IF r.err = "" THEN String(r.fp) ELSE <<>>]
    /\ UNCHANGED <<threads, bIn, lru, now, lastOp, run, globalCache, onceDone, file, cfg, last, nops, everSet>>

CallParseJA4String ==
    /\ bOut = Nil /\ bIn.kind = "string"
    /\ bOut' = [op |-> "ParseJA4String", res |-> ParseJA4String(bIn.ja4String)]
    /\ UNCHANGED <<threads, bIn, lru, now, lastOp, run, globalCache, onceDone, file, cfg, last, nops, everSet>>

\* the steps of TestRoundTripJA4: generate, String(), parse back
CallRoundTrip ==
    /\ bOut = Nil /\ bIn.kind = "data" /\ bIn.data # Nil
    /\ \E r \in {GenerateJA4(bIn.data)} :
           \E s \in {String(r.fp)} :
               bOut' = [op |-> "RoundTrip", res |-> r, str |-> s,
                        parsed |-> ParseJA4String(s)]
    /\ UNCHANGED <<threads, bIn, lru, now, lastOp, run, globalCache, onceDone, file, cfg, last, nops, everSet>>

NextJA4 == CallGenerateJA4 \/ CallParseJA4String \/ CallRoundTrip

SpecJA4 == InitJA4 /\ [][NextJA4]_vars

\* GenerateJA4 has run on a JA4Data and returned a fingerprint
Generated == bOut # Nil /\ bOut.op = "GenerateJA4" /\ bOut.res.err = ""

\* part a of the emitted string: what precedes its first underscore
EmittedPartA == Split(bOut.str, "_")[1]

\* C17: part a of the emitted JA4 string has exactly 10 characters: protocol
\* t/q, the two-character version tag, the SNI character, the cipher count
\* and the extension count as two lowercase hex digits of min(len, 0xff)
\* each, and the two-character ALPN tag (h2 for the ALPN list [h2]).
C17_PartAIsTenChars ==
    Generated =>
        \E a \in {EmittedPartA} :
            /\ Len(a) = 10
            /\ a[1] = (IF bIn.data.IsQUIC THEN "q" ELSE "t")
            /\ SubSeq(a, 2, 3) = formatTLSVersion(bIn.data.TLSVersion)
            /\ a[4] \in {"d", "i"}
            /\ SubSeq(a, 5, 6) = Sprintf0x(CapCount(Len(bIn.data.CipherSuites)), 2)
            /\ SubSeq(a, 7, 8) = Sprintf0x(CapCount(Len(bIn.data.Extensions)), 2)
            /\ (bIn.data.ALPNProtocols = <<"h2">> => SubSeq(a, 9, 10) = Chars("h2"))

\* b has the elements of a, each as often as a has it
IsPermutation(a, b) ==
    /\ Len(a) = Len(b)
    /\ \A v \in Range(a) \cup Range(b) :
           Cardinality({i \in 1..Len(a) : a[i] = v})
               = Cardinality({i \in 1..Len(b) : b[i] = v})

IsAscending(s) == \A i \in 1..(Len(s) - 1) : s[i] <= s[i + 1]

DrawnExtensionLists == {d.Extensions : d \in DrawnJA4Data}

DrawnCipherLists == {d.CipherSuites : d \in DrawnJA4Data}

\* the hash of the byte string that a list of ids writes (empty list: no bytes)
HashOfIds(ids) == IF Len(ids) = 0 THEN Sha256Hex12(<<>>) ELSE Sha256Hex12(IdString(ids))

\* C18: the extension hash is the hash of the ids other than 0 and 16 in
\* ascending order; every permutation of the extension list has the same
\* extension hash; a list of only 0 and 16 hashes like the empty list; and a
\* different ordering of the same cipher suites feeds a different string to
\* the cipher hash.
C18_HashOrdering ==
    Generated =>
        /\ \E t \in DrawnExtensionLists \cup {filteredExtensions(bIn.data.Extensions)} :
               /\ IsPermutation(t, SelectSeq(bIn.data.Extensions, IsNotSNIOrALPN))
               /\ IsAscending(t)
               /\ bOut.res.fp.ExtensionHash = HashOfIds(t)
        /\ \A p \in DrawnExtensionLists :
               IsPermutation(p, bIn.data.Extensions)
                   => generateExtensionHash(p) = bOut.res.fp.ExtensionHash
        /\ (Range(bIn.data.Extensions) \subseteq {0, 16}
               => bOut.res.fp.ExtensionHash = generateExtensionHash(<<>>))
        /\ bOut.res.fp.CipherHash = HashOfIds(bIn.data.CipherSuites)
        /\ \A p \in DrawnCipherLists :
               (IsPermutation(p, bIn.data.CipherSuites) /\ p # bIn.data.CipherSuites)
                   => IdString(p) # IdString(bIn.data.CipherSuites)

\* GenerateJA4 has hashed a list with SNI and ALPN in it that is not ascending,
\* and cipher suites of which another ordering is drawn
C18_Witness ==
    /\ Generated
    /\ bIn.data.Extensions = TestExtensionsShuffled
    /\ bIn.data.CipherSuites = TestCipherSuitesShuffled
    /\ bOut.res.fp.ExtensionHash = HashOfIds(<<10, 11, 13, 23, 43, 51>>)

\* ParseJA4String has run on a drawn string
Parsed == bOut # Nil /\ bOut.op = "ParseJA4String"

\* the strings C19 names: three parts, part a of 7 characters or more, both
\* hashes of 12, protocol t or q, a version tag of the table, SNI d or i
WellFormedJA4(s) ==
    \E parts \in {Split(s, "_")} :
        /\ Len(parts) = 3
        /\ Len(parts[1]) >= 7
        /\ Len(parts[2]) = 12 /\ Len(parts[3]) = 12
        /\ parts[1][1] \in {"t", "q"}
        /\ SubSeq(parts[1], 2, 3) \in validVersions
        /\ parts[1][4] \in {"d", "i"}

\* C19: ParseJA4String never aborts; it returns a fingerprint for exactly the
\* well-formed strings and an error for every other string.
C19_ParseJA4Total ==
    Parsed =>
        /\ ~bOut.res.panic
        /\ (bOut.res.err = "" /\ bOut.res.fp # Nil) <=> WellFormedJA4(bIn.ja4String)
        /\ (bOut.res.err # "" /\ bOut.res.fp = Nil) <=> ~WellFormedJA4(bIn.ja4String)

\* C20: the string of every generated fingerprint parses back without error
\* to the same protocol, version tag, SNI character, cipher hash and
\* extension hash.
C20_RoundTrip ==
    (bOut # Nil /\ bOut.op = "RoundTrip") =>
        /\ ~bOut.parsed.panic
        /\ bOut.parsed.err = ""
        /\ bOut.parsed.fp.Protocol = bOut.res.fp.Protocol
        /\ bOut.parsed.fp.TLSVersion = bOut.res.fp.TLSVersion
        /\ bOut.parsed.fp.SNI = bOut.res.fp.SNI
        /\ bOut.parsed.fp.CipherHash = bOut.res.fp.CipherHash
        /\ bOut.parsed.fp.ExtensionHash = bOut.res.fp.ExtensionHash

(***************************************************************************)
(* SpecCache: one private LRUCache shared by the goroutines, which call its *)
(* methods.  A step holds one access to what the goroutines share (the     *)
(* entries, a counter, the clock, a word of metricsResetAt) together with  *)
(* the locking of c.mu next to it, and the steps of the other goroutine    *)
(* run between them:                                                       *)
(*   Get on a disabled cache is one step.  On an enabled cache it takes    *)
(*   the read lock and looks the key up; a miss then counts and returns;   *)
(*   an entry found is tested against the TTL and the clock, and a fresh   *)
(*   one counts the hit and returns; an expired one goes through RUnlock;  *)
(*   Lock, Remove, Unlock; RLock and misses.Add; evictions.Add and return. *)
(*   Set on a disabled cache or of a nil spec is one step.  Otherwise it   *)
(*   takes the write lock, which waits for the read locks to be released,  *)
(*   and reads the clock; then c.cache.Add; then, if an entry was evicted  *)
(*   and metrics are on, evictions.Add; the return unlocks.  The clock and *)
(*   the counters move under it, ResetMetrics taking no lock.  Clear and   *)
(*   the Remove of Get are one write-locked section each.                  *)
(*   ResetMetrics, which takes no lock, is hits.Store; misses.Store;       *)
(*   evictions.Store; the reading of the clock; then the two words of      *)
(*   metricsResetAt, in either order.  Two ResetMetrics that overlap race  *)
(*   on metricsResetAt, which can end with the words of two different      *)
(*   readings.                                                             *)
(* lastOp is the call that started last and last what the Get that         *)
(* returned last returned.  everSet holds the keys passed to Set so far    *)
(* and bOut the keys whose entry an expiring Get removed with no Set       *)
(* storing under them since.                                               *)
(***************************************************************************)
Keys == {"a", "b"}

SpecA == BuildClientHelloSpecFromJA3(
             [Version |-> 771, CipherSuites |-> <<4865>>, Extensions |-> <<0, 16>>,
              SupportedGroups |-> <<29>>, EllipticCurvePoint |-> <<0>>],
             "example.com").spec

SpecB == BuildClientHelloSpecFromJA3(
             [Version |-> 771, CipherSuites |-> <<4866>>, Extensions |-> <<10>>,
              SupportedGroups |-> <<29>>, EllipticCurvePoint |-> <<0>>],
             "").spec

DrawnCacheConfigs ==
    [Enabled : BOOLEAN, MaxSize : {1, 2}, TTL : {0, 1}, MetricsEnabled : BOOLEAN]
        \cup {[Enabled |-> TRUE, MaxSize |-> 0, TTL |-> 0, MetricsEnabled |-> TRUE]}

\* the goroutines that share one LRUCache
Goroutines == {1, 2}

MaxCacheCalls == 5   \* calls of cache methods and advances of the clock in one behaviour

MaxNow == 2          \* the latest time of the clock, in ticks

\* lastOp before any method was called
NoOp == [op |-> "New", key |-> "", spec |-> Nil, at |-> 0]

\* a goroutine inside no method.  Inside Get(key) pc is "absent" after a
\* lookup that found nothing and "found" after one that found entry; then
\* "fresh" or "expired" after the TTL test, "unlocked" after the RUnlock of
\* the expired branch, "removed" after its Remove and "missed" after its
\* misses.Add.  after is the Set of the key with a non-nil spec that was the
\* last call to start before this Get, if that was one; never tells that the
\* key had not been passed to Set when the Get started, gone that an expiring
\* Get had removed its entry with no Set of it since.
\* Inside ResetMetrics pc is "hitsStored", "missesStored", "evictionsStored",
\* "timeRead" (at is the reading), then "wallStored" or "extStored".
\* Inside Set(key, spec) pc is "setLocked" after c.mu.Lock() and time.Now()
\* (entry is the cacheEntry built) and "setEvicted" after an Add that evicted
\* on a cache with metrics.
IdleGet == [pc |-> "idle", key |-> "", at |-> 0, entry |-> Nil, after |-> Nil,
            never |-> FALSE, gone |-> FALSE]

InitCache ==
    /\ \E c \in DrawnCacheConfigs : lru = NewLRUCache(c, 0)
    /\ now = 0
    /\ lastOp = NoOp
    /\ run = [keys |-> {}, ev0 |-> 0]
    /\ threads = [t \in Goroutines |-> IdleGet]
    /\ bIn = Nil /\ bOut = {}
    /\ globalCache = Nil /\ onceDone = FALSE
    /\ file = Nil /\ cfg = Nil /\ last = Nil /\ nops = 0 /\ everSet = {}

\* A method is called by a goroutine that is inside no call; the goroutines
\* being alike, the caller is the first of them.
Caller == CHOOSE t \in Goroutines :
              /\ threads[t].pc = "idle"
              /\ \A u \in Goroutines : threads[u].pc = "idle" => t <= u

CacheOp ==
    /\ \E t \in Goroutines : threads[t].pc = "idle"
    /\ nops < MaxCacheCalls /\ nops' = nops + 1

\* c.mu is write-locked: a Set is between its c.mu.Lock() and its return.
\* c.mu.RLock() and c.mu.Lock() wait.
LockHeld ==
    \E u \in Goroutines : threads[u].pc \in {"setLocked", "setEvicted"}

\* what a Get returns
GetReturn(spec, found) == [spec |-> spec, found |-> found]

\* Get from its call to the lookup: the test of c.config.Enabled, which
\* returns nil, false on a disabled cache; c.mu.RLock(); c.cache.Get(key),
\* which moves an entry found to the front
CacheGet(t, k) ==
    /\ CacheOp /\ t = Caller
    /\ lru.config.Enabled => ~LockHeld
    /\ lastOp' = [NoOp EXCEPT !.op = "Get"]
    /\ IF ~lru.config.Enabled
       THEN /\ last' = GetReturn(Nil, FALSE)
            /\ UNCHANGED <<lru, threads>>
       ELSE /\ \E g \in {lruGet(lru.entries, k)} :
                   /\ lru' = [lru EXCEPT !.entries = g.entries]
                   /\ threads' = [threads EXCEPT ![t] =
                          [IdleGet EXCEPT !.pc = IF g.ok THEN "found" ELSE "absent",
                                          !.key = k, !.entry = g.entry,
                                          !.after = IF lastOp.op = "Set" /\ lastOp.key = k
                                                       /\ lastOp.spec # Nil
                                                    THEN lastOp ELSE Nil,
                                          !.never = k \notin everSet,
                                          !.gone = k \in bOut]]
            /\ last' = last
    /\ run' = Nil
    /\ UNCHANGED <<bIn, bOut, now, globalCache, onceDone, file, cfg, everSet>>

\* c.mu is read-locked: a Get is between the c.mu.RLock() at its entry and
\* its return or the RUnlock of its expired branch, or between the
\* c.mu.RLock() of its expired branch and its return.  c.mu.Lock() waits.
RLockHeld ==
    \E u \in Goroutines :
        threads[u].pc \in {"absent", "found", "fresh", "expired", "missed"}

\* the miss: with metrics c.misses.Add(1); return nil, false, which unlocks
CacheGetMiss(t) ==
    /\ threads[t].pc = "absent"
    /\ lru' = getCountMiss(lru)
    /\ last' = GetReturn(Nil, FALSE)
    /\ threads' = [threads EXCEPT ![t] = IdleGet]
    /\ run' = Nil
    /\ UNCHANGED <<bIn, bOut, now, lastOp, globalCache, onceDone, file, cfg, nops,
                   everSet>>

\* the TTL test of the entry found: c.config.TTL > 0 and the reading of the
\* clock in time.Since(entry.createdAt)
CacheGetTTL(t) ==
    /\ threads[t].pc = "found"
    /\ threads' = [threads EXCEPT ![t].pc =
                      IF Expired(lru, threads[t].entry, now) THEN "expired"
                      ELSE "fresh"]
    /\ run' = Nil
    /\ UNCHANGED <<bIn, bOut, lru, now, lastOp, globalCache, onceDone, file, cfg, last,
                   nops, everSet>>

\* the hit: with metrics c.hits.Add(1); return entry.spec, true, which unlocks
CacheGetHit(t) ==
    /\ threads[t].pc = "fresh"
    /\ lru' = getCountHit(lru)
    /\ last' = GetReturn(threads[t].entry.spec, TRUE)
    /\ threads' = [threads EXCEPT ![t] = IdleGet]
    /\ run' = Nil
    /\ UNCHANGED <<bIn, bOut, now, lastOp, globalCache, onceDone, file, cfg, nops,
                   everSet>>

\* the expired branch: c.mu.RUnlock()
CacheGetRUnlock(t) ==
    /\ threads[t].pc = "expired"
    /\ threads' = [threads EXCEPT ![t].pc = "unlocked"]
    /\ run' = Nil
    /\ UNCHANGED <<bIn, bOut, lru, now, lastOp, globalCache, onceDone, file, cfg, last,
                   nops, everSet>>

\* the expired branch: c.mu.Lock(); c.cache.Remove(key); c.mu.Unlock()
CacheGetRemove(t) ==
    /\ threads[t].pc = "unlocked"
    /\ ~RLockHeld /\ ~LockHeld
    /\ lru' = expiredRemove(lru, threads[t].key)
    /\ threads' = [threads EXCEPT ![t].pc = "removed"]
    /\ bOut' = bOut \cup {threads[t].key}
    /\ run' = Nil
    /\ UNCHANGED <<bIn, now, lastOp, globalCache, onceDone, file, cfg, last, nops,
                   everSet>>

\* the expired branch: c.mu.RLock() and, with metrics, c.misses.Add(1);
\* without metrics the call returns nil, false here
CacheGetCount(t) ==
    /\ threads[t].pc = "removed"
    /\ ~LockHeld
    /\ lru' = expiredCountMiss(lru)
    /\ IF lru.config.MetricsEnabled
       THEN /\ threads' = [threads EXCEPT ![t].pc = "missed"]
            /\ last' = last
       ELSE /\ threads' = [threads EXCEPT ![t] = IdleGet]
            /\ last' = GetReturn(Nil, FALSE)
    /\ run' = Nil
    /\ UNCHANGED <<bIn, bOut, now, lastOp, globalCache, onceDone, file, cfg, nops,
                   everSet>>

\* the expired branch: c.evictions.Add(1), return nil, false
CacheGetCountEviction(t) ==
    /\ threads[t].pc = "missed"
    /\ lru' = expiredCountEviction(lru)
    /\ last' = GetReturn(Nil, FALSE)
    /\ threads' = [threads EXCEPT ![t] = IdleGet]
    /\ run' = Nil
    /\ UNCHANGED <<bIn, bOut, now, lastOp, globalCache, onceDone, file, cfg, nops,
                   everSet>>

\* Set from its call to its reading of the clock: the test of
\* c.config.Enabled and of the spec, which returns at once on a disabled
\* cache or a nil spec; c.mu.Lock(); time.Now() for the entry's createdAt
CacheSet(t, k, s) ==
    /\ CacheOp /\ t = Caller
    /\ lastOp' = [NoOp EXCEPT !.op = "Set", !.key = k, !.spec = s, !.at = now]
    /\ everSet' = everSet \cup {k}
    /\ IF ~lru.config.Enabled \/ s = Nil
       THEN /\ threads' = threads
            /\ run' = IF run # Nil /\ s # Nil /\ k \notin run.keys
                      THEN [run EXCEPT !.keys = @ \cup {k}]
                      ELSE Nil
       ELSE /\ ~RLockHeld /\ ~LockHeld
            /\ threads' = [threads EXCEPT ![t] =
                   [IdleGet EXCEPT !.pc = "setLocked", !.key = k, !.at = now,
                                   !.entry = [key |-> k, spec |-> s,
                                              createdAt |-> now]]]
            /\ run' = run
    /\ UNCHANGED <<bIn, bOut, lru, now, globalCache, onceDone, file, cfg, last>>

\* evicted := c.cache.Add(key, entry); a Set that has nothing to count
\* returns, which unlocks
CacheSetAdd(t) ==
    /\ threads[t].pc = "setLocked"
    /\ \E a \in {lruAdd(lru.entries, threads[t].key, threads[t].entry.spec,
                         threads[t].entry.createdAt, lru.config.MaxSize)} :
          /\ lru' = [lru EXCEPT !.entries = a.entries]
          /\ threads' = [threads EXCEPT ![t] =
                 IF a.evicted /\ lru.config.MetricsEnabled
                 THEN [@ EXCEPT !.pc = "setEvicted"] ELSE IdleGet]
          /\ run' = IF a.evicted /\ lru.config.MetricsEnabled THEN run
                    ELSE IF run # Nil /\ threads[t].key \notin run.keys
                    THEN [run EXCEPT !.keys = @ \cup {threads[t].key}]
                    ELSE Nil
    /\ bOut' = bOut \ {threads[t].key}
    /\ UNCHANGED <<bIn, now, lastOp, globalCache, onceDone, file, cfg, last, nops,
                   everSet>>

\* c.evictions.Add(1); the return unlocks
CacheSetCount(t) ==
    /\ threads[t].pc = "setEvicted"
    /\ lru' = [lru EXCEPT !.evictions = @ + 1]
    /\ threads' = [threads EXCEPT ![t] = IdleGet]
    /\ run' = IF run # Nil /\ threads[t].key \notin run.keys
              THEN [run EXCEPT !.keys = @ \cup {threads[t].key}]
              ELSE Nil
    /\ UNCHANGED <<bIn, bOut, now, lastOp, globalCache, onceDone, file, cfg, last, nops,
                   everSet>>

\* Clear, under c.mu.Lock()
CacheClear(t) ==
    /\ CacheOp /\ t = Caller
    /\ ~RLockHeld /\ ~LockHeld
    /\ lru' = LRUCacheClear(lru)
    /\ lastOp' = [NoOp EXCEPT !.op = "Clear"]
    /\ run' = [keys |-> {}, ev0 |-> lru.evictions]
    /\ UNCHANGED <<threads, bIn, bOut, now, globalCache, onceDone, file, cfg, last, everSet>>

\* ResetMetrics from its call to its first write: c.hits.Store(0)
CacheResetMetrics(t) ==
    /\ CacheOp /\ t = Caller
    /\ lru' = resetHits(lru)
    /\ lastOp' = [NoOp EXCEPT !.op = "ResetMetrics"]
    /\ threads' = [threads EXCEPT ![t] = [IdleGet EXCEPT !.pc = "hitsStored"]]
    /\ run' = Nil
    /\ UNCHANGED <<bIn, bOut, now, globalCache, onceDone, file, cfg, last, everSet>>

\* c.misses.Store(0)
CacheResetMisses(t) ==
    /\ threads[t].pc = "hitsStored"
    /\ lru' = resetMisses(lru)
    /\ threads' = [threads EXCEPT ![t].pc = "missesStored"]
    /\ run' = Nil
    /\ UNCHANGED <<bIn, bOut, now, lastOp, globalCache, onceDone, file, cfg, last, nops,
                   everSet>>

\* c.evictions.Store(0)
CacheResetEvictions(t) ==
    /\ threads[t].pc = "missesStored"
    /\ lru' = resetEvictions(lru)
    /\ threads' = [threads EXCEPT ![t].pc = "evictionsStored"]
    /\ run' = Nil
    /\ UNCHANGED <<bIn, bOut, now, lastOp, globalCache, onceDone, file, cfg, last, nops,
                   everSet>>

\* the call of time.Now() whose value c.metricsResetAt is to get
CacheResetNow(t) ==
    /\ threads[t].pc = "evictionsStored"
    /\ threads' = [threads EXCEPT ![t].pc = "timeRead", ![t].at = now]
    /\ run' = Nil
    /\ UNCHANGED <<bIn, bOut, lru, now, lastOp, globalCache, onceDone, file, cfg, last,
                   nops, everSet>>

\* c.metricsResetAt = ...: the store of one word of the time read, the first
\* of the two in either order, the second being the word still to store
CacheResetStamp(t, word) ==
    /\ \/ threads[t].pc = "timeRead"
       \/ threads[t].pc = "wallStored" /\ word = "ext"
       \/ threads[t].pc = "extStored" /\ word = "wall"
    /\ lru' = resetStampWord(lru, word, threads[t].at)
    /\ threads' = [threads EXCEPT ![t] =
                     IF threads[t].pc # "timeRead" THEN IdleGet
                     ELSE [@ EXCEPT !.pc = IF word = "wall" THEN "wallStored"
                                           ELSE "extStored"]]
    /\ run' = Nil
    /\ UNCHANGED <<bIn, bOut, now, lastOp, globalCache, onceDone, file, cfg, last, nops,
                   everSet>>

\* the clock advances by d ticks
CacheTick(d) ==
    /\ nops < MaxCacheCalls /\ nops' = nops + 1
    /\ now + d <= MaxNow
    /\ now' = now + d
    /\ UNCHANGED <<threads, bIn, bOut, lru, lastOp, run, globalCache, onceDone, file, cfg, last,
                   everSet>>

NextCache ==
    \/ \E t \in Goroutines, k \in Keys : CacheGet(t, k)
    \/ \E t \in Goroutines : CacheGetMiss(t)
    \/ \E t \in Goroutines : CacheGetTTL(t)
    \/ \E t \in Goroutines : CacheGetHit(t)
    \/ \E t \in Goroutines : CacheGetRUnlock(t)
    \/ \E t \in Goroutines : CacheGetRemove(t)
    \/ \E t \in Goroutines : CacheGetCount(t)
    \/ \E t \in Goroutines : CacheGetCountEviction(t)
    \/ \E t \in Goroutines, k \in Keys, s \in {SpecA, SpecB, Nil} : CacheSet(t, k, s)
    \/ \E t \in Goroutines : CacheSetAdd(t)
    \/ \E t \in Goroutines : CacheSetCount(t)
    \/ \E t \in Goroutines : CacheClear(t)
    \/ \E t \in Goroutines : CacheResetMetrics(t)
    \/ \E t \in Goroutines : CacheResetMisses(t)
    \/ \E t \in Goroutines : CacheResetEvictions(t)
    \/ \E t \in Goroutines : CacheResetNow(t)
    \/ \E t \in Goroutines, word \in {"wall", "ext"} : CacheResetStamp(t, word)
    \/ \E d \in 1..MaxNow : CacheTick(d)

SpecCache == InitCache /\ [][NextCache]_vars

KeysOf(c) == {c.entries[i].key : i \in 1..Len(c.entries)}

EntryOf(c, k) == c.entries[IndexOfKey(c.entries, k)]

Max(a, b) == IF a >= b THEN a ELSE b

Counted(c) == c.config.Enabled /\ c.config.MetricsEnabled

\* the Get of goroutine t started as the next call after a Set of its key
\* with a non-nil spec
AfterSet(t) == threads[t].after # Nil

\* the TTL has not elapsed since that Set
WithinTTL(t) ==
    lru.config.TTL = 0 \/ now - threads[t].after.at <= lru.config.TTL

\* C4: on an enabled cache with metrics, a Get(k) that is the next call after
\* Set(k, s) with s non-nil, at an age not beyond the TTL (or with TTL = 0),
\* returns (s, true), adds one hit and no miss; a Get of a key never passed to
\* Set returns absent, adds one miss and no hit.
C4_SetThenGetHits ==
    [][Counted(lru) =>
          /\ \A t \in Goroutines, k \in Keys :
                CacheGet(t, k) =>
                    /\ (lastOp.op = "Set" /\ lastOp.key = k /\ lastOp.spec # Nil)
                           => /\ threads'[t].pc = "found"
                              /\ threads'[t].entry.spec = lastOp.spec
                    /\ k \notin everSet => threads'[t].pc = "absent"
          /\ \A t \in Goroutines :
                /\ (CacheGetTTL(t) /\ AfterSet(t) /\ WithinTTL(t))
                       => threads'[t].pc = "fresh"
                /\ (CacheGetHit(t) /\ AfterSet(t))
                       => /\ last'.found /\ last'.spec = threads[t].after.spec
                          /\ lru'.hits = lru.hits + 1
                          /\ lru'.misses = lru.misses
                /\ (CacheGetMiss(t) /\ threads[t].never)
                       => /\ ~last'.found /\ last'.spec = Nil
                          /\ lru'.misses = lru.misses + 1
                          /\ lru'.hits = lru.hits]_vars

\* The parts of C5, the counting part under a precondition.
SizeWithinCapacity == lru # Nil => LRUCacheSize(lru) <= lru.config.MaxSize

\* the Add of a Set that overwrites a present key has nothing to count and
\* returns; no other step of a Set than its evictions.Add moves evictions
OverwriteCountsNoEviction ==
    /\ \A t \in Goroutines, k \in Keys, s \in {SpecA, SpecB} :
           CacheSet(t, k, s) => lru'.evictions = lru.evictions
    /\ \A t \in Goroutines :
           CacheSetAdd(t) =>
               /\ lru'.evictions = lru.evictions
               /\ threads[t].key \in KeysOf(lru) => threads'[t].pc = "idle"

RunEvictions ==
    lru.evictions - run.ev0 = Max(0, Cardinality(run.keys) - lru.config.MaxSize)

\* a cache that is disabled or has no metrics never moves evictions
UncountedKeepsEvictions == ~Counted(lru) => lru'.evictions = lru.evictions

\* C5: Size() never exceeds the capacity; on an enabled cache with metrics,
\* Set of non-nil specs on M + n pairwise distinct keys from an empty cache
\* adds exactly n to evictions; a Set that overwrites a present key adds none;
\* with the cache disabled or metrics off evictions never changes.
C5_CapacityAndEvictions ==
    /\ [](SizeWithinCapacity)
    /\ []((lru # Nil /\ run # Nil /\ Counted(lru)) => RunEvictions)
    /\ [][OverwriteCountsNoEviction]_vars
    /\ [][UncountedKeepsEvictions]_vars

C5_Witness ==
    /\ lru # Nil /\ run # Nil /\ Counted(lru)
    /\ lru.config.MaxSize = 1 /\ Cardinality(run.keys) = 2
    /\ lru.evictions - run.ev0 = 1 /\ LRUCacheSize(lru) = 1

\* C5 as stated, for every cache configuration.
C5_AnyConfig ==
    /\ [](SizeWithinCapacity)
    /\ []((lru # Nil /\ run # Nil) => RunEvictions)
    /\ [][OverwriteCountsNoEviction]_vars

\* The parts of C6, each for one step of a Get(k).
\* the entry the Get of t found is older than a configured TTL
FindsExpired(t) ==
    /\ lru.config.TTL > 0
    /\ now - threads[t].entry.createdAt > lru.config.TTL

SameCounters == lru'.hits = lru.hits /\ lru'.misses = lru.misses
                    /\ lru'.evictions = lru.evictions

\* the TTL test sends exactly the Get whose entry is expired to the expired
\* branch, and changes nothing
ExpiredEntryFound(t) ==
    /\ FindsExpired(t) <=> threads'[t].pc = "expired"
    /\ ~FindsExpired(t) <=> threads'[t].pc = "fresh"
    /\ lru' = lru

\* the Remove of the expired branch removes the entry the Get found expired:
\* what is under the key is that entry, and nothing is under it afterwards
ExpiredEntryRemoved(t) ==
    /\ threads[t].key \in KeysOf(lru)
           => EntryOf(lru, threads[t].key) = threads[t].entry
    /\ KeysOf(lru') = KeysOf(lru) \ {threads[t].key}
    /\ SameCounters

\* the miss of the expired branch
ExpiredMissCounted(t) ==
    /\ lru'.misses = lru.misses + 1
    /\ lru'.evictions = lru.evictions
    /\ lru'.hits = lru.hits
    /\ lru'.entries = lru.entries
    /\ threads'[t].pc = "missed"

\* the last step of the expired branch
ExpiredEvictionCounted(t) ==
    /\ lru'.evictions = lru.evictions + 1
    /\ lru'.misses = lru.misses
    /\ lru'.hits = lru.hits
    /\ lru'.entries = lru.entries
    /\ ~last'.found /\ last'.spec = Nil
    /\ threads'[t].pc = "idle"

\* the miss of a Get(k) that started after an expiring Get removed the entry
\* of k, with no Set of k in between
PlainMissCounted(t) ==
    /\ ~last'.found /\ last'.spec = Nil
    /\ lru'.misses = lru.misses + 1
    /\ lru'.evictions = lru.evictions
    /\ lru'.hits = lru.hits
    /\ lru'.entries = lru.entries

\* C6: on an enabled cache with metrics, with TTL > 0 a Get(k) that finds an
\* entry older than the TTL removes that entry, counts one miss and one
\* eviction and no hit, and returns absent; a Get(k) that follows with no Set
\* of k in between finds nothing, counts one miss and no eviction.  With
\* TTL = 0 no Get finds its entry expired.
C6_ExpiredGetEvicts ==
    [][Counted(lru) =>
          /\ \A t \in Goroutines, k \in Keys :
                (CacheGet(t, k) /\ k \in bOut) => threads'[t].pc = "absent"
          /\ \A t \in Goroutines :
                /\ CacheGetTTL(t) => ExpiredEntryFound(t)
                /\ CacheGetRemove(t) => ExpiredEntryRemoved(t)
                /\ CacheGetCount(t) => ExpiredMissCounted(t)
                /\ CacheGetCountEviction(t) => ExpiredEvictionCounted(t)
                /\ (CacheGetMiss(t) /\ threads[t].gone) => PlainMissCounted(t)]_vars

\* C6 without the demand that the entry removed is the one found expired
C6_ExpiredGetBranch ==
    [][Counted(lru) =>
          /\ \A t \in Goroutines, k \in Keys :
                (CacheGet(t, k) /\ k \in bOut) => threads'[t].pc = "absent"
          /\ \A t \in Goroutines :
                /\ CacheGetTTL(t) => ExpiredEntryFound(t)
                /\ CacheGetRemove(t) =>
                       /\ KeysOf(lru') = KeysOf(lru) \ {threads[t].key}
                       /\ SameCounters
                /\ CacheGetCount(t) => ExpiredMissCounted(t)
                /\ CacheGetCountEviction(t) => ExpiredEvictionCounted(t)
                /\ (CacheGetMiss(t) /\ threads[t].gone) => PlainMissCounted(t)]_vars

(***************************************************************************)
(* SpecDialer: the four dial/upgrade entry points called by two goroutines *)
(* with one configuration and one file, sharing the global cache.  A step  *)
(* of a call runs up to its next access to what the goroutines share (the  *)
(* package variable globalCache, a cache, the clock behind the deadline)   *)
(* or its next call that blocks (DialContext, HandshakeContext), so the    *)
(* steps of two calls interleave and the deadline can pass between them.   *)
(* The global cache is the default one here, which has no TTL: its Get     *)
(* never finds an entry expired.  last is what the call that returned last *)
(* returned.                                                               *)
(***************************************************************************)
DescV1 ==
    [ciphers |-> <<"TLS_AES_128_GCM_SHA256", "TLS_RSA_WITH_AES_128_CBC_SHA256",
                   "TLS_NOT_A_CIPHER">>,
     version |-> "TLS 1.2",
     extensions |->
        << [ExtJSON("server_name (0)") EXCEPT !.ServerName = "peet.example"],
           [ExtJSON("supported_groups (10)") EXCEPT
                !.SupportedGroups = <<"TLS_GREASE (0x0a0a)", "X25519 (29)">>],
           [ExtJSON("application_layer_protocol_negotiation (16)") EXCEPT
                !.Protocols = <<"h2">>],
           ExtJSON("key_share (51)"),
           ExtJSON("padding (21)") >>]

DescV2 ==
    [ciphers |-> <<"TLS_AES_256_GCM_SHA384">>,
     version |-> "",
     extensions |->
        << [ExtJSON("supported_versions (43)") EXCEPT !.Versions = <<"TLS 1.3", "TLS 1.2">>],
           ExtJSON("session_ticket (35)") >>]

FileOf(kind, desc, mtime) == [exists |-> TRUE, kind |-> kind, mtime |-> mtime, desc |-> desc]

DrawnFiles ==
    {NoFile, FileOf("peet", DescV1, 0), FileOf("custom", DescV1, 0),
     FileOf("malformed", Nil, 0)}

GoodJA3 == "771,4865-4866,0-16-2570,29,0"

BadJA3 == "771,4865,0-x,29"

DialerConfig(f, j, p, sn, alpn) ==
    [ClientHelloSpecFile |-> f, JA3 |-> j, BrowserProfile |-> p, ServerName |-> sn,
     ALPNProtocols |-> alpn]

\* The configurations drawn: every source alone and under the sources that
\* take precedence over it, a malformed JA3, and profile names outside the
\* catalog.
DrawnConfigs ==
    {DialerConfig("", "", "", "", <<>>),
     DialerConfig(SpecPath, GoodJA3, "chrome_modern", "example.com", <<>>),
     DialerConfig(SpecPath, "", "", "", <<"http/1.1">>),
     DialerConfig("", GoodJA3, "chrome_modern", "example.com", <<"http/1.1">>),
     DialerConfig("", GoodJA3, "", "", <<>>),
     DialerConfig("", BadJA3, "chrome_modern", "", <<>>),
     DialerConfig("", "", "chrome_modern", "", <<>>),
     DialerConfig("", "", "Firefox", "example.com", <<>>),
     DialerConfig("", "", "netscape", "", <<>>)}

\* the deadline of the context a call is made with
DrawnDeadlines == {"none", "future", "past"}

\* The file system matters only to a configuration that names a file: the
\* others are drawn with no file on disk.
InitDialer ==
    /\ cfg \in DrawnConfigs
    /\ file \in IF cfg.ClientHelloSpecFile = "" THEN {NoFile} ELSE DrawnFiles
    /\ threads = [t \in Goroutines |-> NoCall]
    /\ lru = <<>> /\ globalCache = 0 /\ onceDone = FALSE
    /\ bOut = 0
    /\ now = 0 /\ last = Nil /\ nops = 0
    /\ bIn = Nil /\ lastOp = Nil /\ run = Nil /\ everSet = {}

\* what no step of a call changes
CallStepKeeps == UNCHANGED <<bIn, now, lastOp, run, file, cfg, everSet>>

CachesKept == UNCHANGED <<lru, globalCache, onceDone>>

\* the goroutine goes on in its call with the frame fr
Moves(t, fr) == threads' = [threads EXCEPT ![t] = fr] /\ last' = last

\* the call of the goroutine returns out
Returns(t, out) == threads' = [threads EXCEPT ![t] = NoCall] /\ last' = out

\* the frames when t enters a call: a call under way is no longer alone
Others(t) == [u \in Goroutines |-> [threads[u] EXCEPT !.alone = @ /\ threads[u].pc = "idle"]]

\* t enters a call and goes on with the frame fr
Starts(t, fr) == threads' = [Others(t) EXCEPT ![t] = fr] /\ last' = last

\* t enters a call that returns out at once
StartsAndReturns(t, out) == threads' = Others(t) /\ last' = out

\* the last call returned was a successful call of the same entry point with
\* the same configuration that handed a custom spec to the engine
FollowsSame(pkg, entry, c) ==
    /\ last # Nil /\ last.pkg = pkg /\ last.entry = entry
    /\ last.config = c /\ last.err = "" /\ last.spec # Nil

\* the frame of t on entering an entry point
begin(pkg, entry, c, deadline, t) ==
    [Call(pkg, entry, c, deadline) EXCEPT
        !.alone = \A u \in Goroutines \ {t} : threads[u].pc = "idle",
        !.counters0 = counters(lru, globalCache),
        !.second = FollowsSame(pkg, entry, c),
        !.file0 = file]

\* what the call of the frame fr returns now, the caches staying as they are
returned(fr, e, timeout, stage) ==
    outcome(fr, e, timeout, stage, counters(lru, globalCache), file)

\* A call is made by a goroutine that is inside no call, the first of them.
CallOp(t) ==
    /\ \E u \in Goroutines : threads[u].pc = "idle"
    /\ t = Caller
    /\ nops < MaxCalls /\ nops' = nops + 1

\* fingerprint.DialTLSWithFingerprint from its call to dialer.DialContext: the
\* nil test and the test of the deadline
FpDial(t, c, deadline) ==
    /\ CallOp(t)
    /\ \E fr \in {begin("fingerprint", "dial", c, deadline, t)} :
         IF c = Nil THEN StartsAndReturns(t, returned(fr, "nilConfig", FALSE, "entry"))
         ELSE IF deadline = "past"
         THEN StartsAndReturns(t, returned(fr, "timeout", TRUE, "entry"))
         ELSE Starts(t, [fr EXCEPT !.pc = "dial"])
    /\ CachesKept /\ bOut' = bOut /\ CallStepKeeps

\* fingerprint.UpgradeConnWithFingerprint from its call to rawConn.SetDeadline
\* (with a deadline) or to the if-chain (without)
FpUpgrade(t, c, deadline) ==
    /\ CallOp(t)
    /\ \E fr \in {begin("fingerprint", "upgrade", c, deadline, t)} :
         IF c = Nil THEN StartsAndReturns(t, returned(fr, "nilConfig", FALSE, "entry"))
         ELSE IF deadline = "past"
         THEN StartsAndReturns(t, returned(fr, "timeout", TRUE, "entry"))
         ELSE Starts(t, [fr EXCEPT !.pc = IF deadline = "none" THEN "select"
                                          ELSE "setDeadline"])
    /\ CachesKept /\ bOut' = bOut /\ CallStepKeeps

\* ja3.DialTLSWithFingerprint from its call to dialer.DialContext
Ja3Dial(t, c, deadline) ==
    /\ CallOp(t)
    /\ \E fr \in {begin("ja3", "dial", c, deadline, t)} :
         IF c = Nil THEN StartsAndReturns(t, returned(fr, "nilConfig", FALSE, "entry"))
         ELSE Starts(t, [fr EXCEPT !.pc = "dial"])
    /\ CachesKept /\ bOut' = bOut /\ CallStepKeeps

\* ja3.UpgradeConnWithFingerprint from its call to the if-chain
Ja3Upgrade(t, c, deadline) ==
    /\ CallOp(t)
    /\ \E fr \in {begin("ja3", "upgrade", c, deadline, t)} :
         IF c = Nil THEN StartsAndReturns(t, returned(fr, "nilConfig", FALSE, "entry"))
         ELSE Starts(t, [fr EXCEPT !.pc = "select"])
    /\ CachesKept /\ bOut' = bOut /\ CallStepKeeps

\* The deadline of the context of a call under way passes.
DeadlinePasses(t) ==
    /\ threads[t].pc # "idle" /\ threads[t].deadline = "future"
    /\ Moves(t, [threads[t] EXCEPT !.deadline = "past"])
    /\ CachesKept /\ UNCHANGED <<bOut, nops>> /\ CallStepKeeps

\* dialer.DialContext is entered: it refuses a context whose deadline has
\* passed before connecting, otherwise it starts to connect
DialBegin(t) ==
    /\ threads[t].pc = "dial"
    /\ \E fr \in {threads[t]} :
         IF fr.deadline = "past" THEN Returns(t, returned(fr, "dial", TRUE, "dial"))
         ELSE Moves(t, [fr EXCEPT !.pc = "dialing", !.steps = <<"connect">>])
    /\ CachesKept /\ UNCHANGED <<bOut, nops>> /\ CallStepKeeps

\* dialer.DialContext returns: the deadline passed meanwhile, the connection
\* failed, or rawConn is there
DialEnd(t, fails) ==
    /\ threads[t].pc = "dialing"
    /\ \E fr \in {threads[t]} :
         IF fr.deadline = "past" THEN Returns(t, returned(fr, "dial", TRUE, "dial"))
         ELSE IF fails THEN Returns(t, returned(fr, "dial", FALSE, "dial"))
         ELSE Moves(t, [fr EXCEPT !.pc = IF fr.pkg = "fingerprint" /\ fr.deadline # "none"
                                         THEN "setDeadline" ELSE "select"])
    /\ CachesKept /\ UNCHANGED <<bOut, nops>> /\ CallStepKeeps

\* rawConn.SetDeadline(deadline)
SetDeadline(t, fails) ==
    /\ threads[t].pc = "setDeadline"
    /\ \E fr \in {[threads[t] EXCEPT !.steps = @ \o <<"setDeadline">>]} :
         IF fails THEN Returns(t, returned(fr, "setDeadline", FALSE, "setDeadline"))
         ELSE Moves(t, [fr EXCEPT !.pc = "select"])
    /\ CachesKept /\ UNCHANGED <<bOut, nops>> /\ CallStepKeeps

\* The if-chain: the file branch calls ParseClientHelloJSON; the other
\* branches parse and build on the spot, a built spec being a new object.
Select(t) ==
    /\ threads[t].pc = "select"
    /\ \E fr \in {[threads[t] EXCEPT !.steps = @ \o <<"select">>]},
          src \in {chosenSource(threads[t].c)} :
         IF src = "file"
         THEN /\ Moves(t, IF fr.pkg = "fingerprint"
                          THEN ParseClientHelloJSON(fr, fr.c.ClientHelloSpecFile)
                          ELSE ja3ParseClientHelloJSON(fr, fr.c.ClientHelloSpecFile))
              /\ bOut' = bOut
         ELSE \E sel \in {selectSpec(fr.pkg, fr.c, src)} :
              IF sel.err # ""
              THEN /\ Returns(t, returned([fr EXCEPT !.source = sel.source], sel.err, FALSE,
                                          "select"))
                   /\ bOut' = bOut
              ELSE /\ Moves(t, [fr EXCEPT !.pc = "apply", !.source = sel.source,
                                          !.helloID = sel.helloID, !.spec = sel.spec,
                                          !.addr = IF sel.spec = Nil THEN 0 ELSE bOut + 1])
                   /\ bOut' = IF sel.spec = Nil THEN bOut ELSE bOut + 1
    /\ CachesKept /\ UNCHANGED nops /\ CallStepKeeps

\* ParseClientHelloJSON returns to its caller: to the test that called it, or
\* to the file branch of the if-chain, which goes on to ApplyPreset with the
\* spec or, after an error, to the custom schema.  after are the counters of
\* the global cache at the return.
ParseReturns(t, fr, after) ==
    IF fr.entry = "parse" THEN Returns(t, outcome(fr, fr.perr, FALSE, "parse", after, file))
    ELSE IF fr.perr = ""
    THEN Moves(t, [fr EXCEPT !.pc = "apply", !.source = "file", !.helloID = "HelloCustom"])
    ELSE Moves(t, [fr EXCEPT !.pc = "load", !.source = "file"])

\* cacheKey, err := CacheKeyForFile(filePath): os.Stat
ParseStat(t) ==
    /\ threads[t].pc = "stat"
    /\ \E fr \in {threads[t]}, ck \in {CacheKeyForFile(threads[t].path, file)} :
         Moves(t, IF ck.err THEN [fr EXCEPT !.pc = "read"]
                  ELSE [fr EXCEPT !.pc = "getCache", !.key = ck.key])
    /\ CachesKept /\ UNCHANGED <<bOut, nops>> /\ CallStepKeeps

\* the cache at the address g of the heap
CacheAt(heap, g) == IF g = 0 THEN Nil ELSE heap[g]

\* GetGlobalCache, first part: globalCacheOnce.Do, when it has not run yet
\* and no goroutine is inside it, runs NewLRUCache(DefaultCacheConfig()),
\* which reads the clock; cache is the local variable of the closure
ParseOnce(t) ==
    /\ threads[t].pc \in {"getCache", "getCache2"}
    /\ ~onceDone
    /\ \A u \in Goroutines : threads[u].pc \notin {"onceBuilt", "onceBuilt2"}
    /\ \E r \in {GetGlobalCache(CacheAt(lru, globalCache), onceDone, now)} :
         lru' = Append(lru, r.cache)
    /\ Moves(t, [threads[t] EXCEPT !.cache = Len(lru) + 1,
                                   !.pc = IF @ = "getCache" THEN "onceBuilt"
                                          ELSE "onceBuilt2"])
    /\ UNCHANGED <<globalCache, onceDone, bOut, nops>> /\ CallStepKeeps

\* inside globalCacheOnce.Do: globalCache = cache, stored without the lock,
\* and the return of Do, after which no Do runs the closure again
ParseOnceStore(t) ==
    /\ threads[t].pc \in {"onceBuilt", "onceBuilt2"}
    /\ globalCache' = threads[t].cache
    /\ onceDone' = TRUE
    /\ Moves(t, [threads[t] EXCEPT !.cache = 0,
                                   !.pc = IF @ = "onceBuilt" THEN "getCache"
                                          ELSE "getCache2"])
    /\ UNCHANGED <<lru, bOut, nops>> /\ CallStepKeeps

\* GetGlobalCache, second part, once.Do having run: the read of globalCache
\* under globalCacheMu.RLock()
ParseGetGlobalCache(t) ==
    /\ threads[t].pc \in {"getCache", "getCache2"}
    /\ onceDone
    /\ Moves(t, [threads[t] EXCEPT !.cache = globalCache,
                                   !.pc = IF @ = "getCache" THEN "get" ELSE "set"])
    /\ CachesKept /\ UNCHANGED <<bOut, nops>> /\ CallStepKeeps

\* cache.Get(cacheKey) from its call to the lookup: a disabled cache returns
\* nil, false at once; otherwise c.mu.RLock() and c.cache.Get(key), which
\* moves an entry found to the front.  A miss goes on to the file.
ParseCacheGet(t) ==
    /\ threads[t].pc = "get"
    /\ \E fr \in {threads[t]} :
         IF fr.cache = 0 \/ ~lru[fr.cache].config.Enabled
         THEN Moves(t, [fr EXCEPT !.pc = "read"]) /\ lru' = lru
         ELSE \E g \in {lruGet(lru[fr.cache].entries, fr.key)} :
              /\ lru' = [lru EXCEPT ![fr.cache].entries = g.entries]
              /\ Moves(t, [fr EXCEPT !.pc = IF g.ok THEN "getFound" ELSE "getAbsent",
                                     !.found = g.entry])
    /\ UNCHANGED <<globalCache, onceDone, bOut, nops>> /\ CallStepKeeps

\* the miss of cache.Get: with metrics c.misses.Add(1); return nil, false
ParseCacheMiss(t) ==
    /\ threads[t].pc = "getAbsent"
    /\ lru' = [lru EXCEPT ![threads[t].cache] = getCountMiss(@)]
    /\ Moves(t, [threads[t] EXCEPT !.pc = "read"])
    /\ UNCHANGED <<globalCache, onceDone, bOut, nops>> /\ CallStepKeeps

\* the TTL test of the entry found: c.config.TTL > 0 and the reading of the
\* clock in time.Since(entry.createdAt)
ParseCacheTTL(t) ==
    /\ threads[t].pc = "getFound"
    /\ Moves(t, [threads[t] EXCEPT !.pc =
                    IF Expired(lru[threads[t].cache], threads[t].found, now)
                    THEN "getExpired" ELSE "getFresh"])
    /\ CachesKept /\ UNCHANGED <<bOut, nops>> /\ CallStepKeeps

\* the hit of cache.Get: with metrics c.hits.Add(1); Get returns the pointer
\* the cache holds, and ParseClientHelloJSON returns it
ParseCacheHit(t) ==
    /\ threads[t].pc = "getFresh"
    /\ lru' = [lru EXCEPT ![threads[t].cache] = getCountHit(@)]
    /\ \E fr \in {threads[t]} :
         ParseReturns(t, [fr EXCEPT !.spec = fr.found.spec.val,
                                    !.addr = fr.found.spec.addr,
                                    !.found = Nil, !.hit = TRUE],
                      counters(lru', globalCache))
    /\ UNCHANGED <<globalCache, onceDone, bOut, nops>> /\ CallStepKeeps

\* the expired branch of cache.Get: c.mu.RUnlock()
ParseCacheRUnlock(t) ==
    /\ threads[t].pc = "getExpired"
    /\ Moves(t, [threads[t] EXCEPT !.pc = "getUnlocked", !.found = Nil])
    /\ CachesKept /\ UNCHANGED <<bOut, nops>> /\ CallStepKeeps

\* the mu of the cache at address a is read-locked: a Get of it is between
\* the c.mu.RLock() at its entry and its return or the RUnlock of its expired
\* branch, or between the c.mu.RLock() of its expired branch and its return.
\* c.mu.Lock() waits for it.
RLockHeldOn(a) ==
    \E u \in Goroutines :
        /\ threads[u].pc \in {"getAbsent", "getFound", "getFresh", "getExpired",
                              "getMissed"}
        /\ threads[u].cache = a

\* the expired branch of cache.Get: c.mu.Lock(); c.cache.Remove(key); c.mu.Unlock()
ParseCacheRemove(t) ==
    /\ threads[t].pc = "getUnlocked"
    /\ ~RLockHeldOn(threads[t].cache)
    /\ lru' = [lru EXCEPT ![threads[t].cache] = expiredRemove(@, threads[t].key)]
    /\ Moves(t, [threads[t] EXCEPT !.pc = "getRemoved"])
    /\ UNCHANGED <<globalCache, onceDone, bOut, nops>> /\ CallStepKeeps

\* the expired branch of cache.Get: c.mu.RLock() and, with metrics,
\* c.misses.Add(1); without metrics cache.Get returns nil, false here
ParseCountMiss(t) ==
    /\ threads[t].pc = "getRemoved"
    /\ lru' = [lru EXCEPT ![threads[t].cache] = expiredCountMiss(@)]
    /\ Moves(t, [threads[t] EXCEPT !.pc = IF lru[threads[t].cache].config.MetricsEnabled
                                          THEN "getMissed" ELSE "read"])
    /\ UNCHANGED <<globalCache, onceDone, bOut, nops>> /\ CallStepKeeps

\* the expired branch of cache.Get: c.evictions.Add(1), return nil, false
ParseCountEviction(t) ==
    /\ threads[t].pc = "getMissed"
    /\ lru' = [lru EXCEPT ![threads[t].cache] = expiredCountEviction(@)]
    /\ Moves(t, [threads[t] EXCEPT !.pc = "read"])
    /\ UNCHANGED <<globalCache, onceDone, bOut, nops>> /\ CallStepKeeps

\* os.ReadFile, json.Unmarshal and BuildClientHelloSpecFromJSON, whose spec
\* is a new object; with a cache key the call goes on to store it
ParseRead(t) ==
    /\ threads[t].pc = "read"
    /\ \E fr \in {threads[t]}, f \in {FileAt(threads[t].path, file)},
          after \in {counters(lru, globalCache)} :
         IF ~f.exists
         THEN ParseReturns(t, [fr EXCEPT !.perr = "read"], after) /\ bOut' = bOut
         ELSE IF f.kind # "peet"
         THEN ParseReturns(t, [fr EXCEPT !.perr = "unmarshal"], after) /\ bOut' = bOut
         ELSE \E built \in {[fr EXCEPT !.spec = BuildClientHelloSpecFromJSON(f.desc),
                                       !.addr = bOut + 1]} :
              /\ bOut' = bOut + 1
              /\ IF fr.key = <<>> THEN ParseReturns(t, built, after)
                 ELSE Moves(t, [built EXCEPT !.pc = "getCache2"])
    /\ CachesKept /\ UNCHANGED nops /\ CallStepKeeps

\* cache.Set(cacheKey, spec), which stores the pointer under c.mu.Lock(), and
\* return spec, nil
ParseCacheSet(t) ==
    /\ threads[t].pc = "set"
    /\ (threads[t].cache # 0 /\ lru[threads[t].cache].config.Enabled)
           => ~RLockHeldOn(threads[t].cache)
    /\ \E fr \in {threads[t]} :
         /\ lru' = IF fr.cache = 0 THEN lru
                   ELSE [lru EXCEPT ![fr.cache] =
                            LRUCacheSet(@, fr.key, [addr |-> fr.addr, val |-> fr.spec], now)]
         /\ ParseReturns(t, fr, counters(lru', globalCache))
    /\ UNCHANGED <<globalCache, onceDone, bOut, nops>> /\ CallStepKeeps

\* The file branch after ParseClientHelloJSON failed:
\* LoadClientHelloSpecFromFile and BuildClientHelloSpecFromFile
LoadSpecFile(t) ==
    /\ threads[t].pc = "load"
    /\ \E fr \in {threads[t]},
          l \in {LoadClientHelloSpecFromFile(threads[t].path, file)} :
         IF l.err # ""
         THEN Returns(t, returned(fr, "load", FALSE, "select")) /\ bOut' = bOut
         ELSE \E b \in {BuildClientHelloSpecFromFile(l.specFile, fr.c.ServerName)} :
              IF b.err # ""
              THEN Returns(t, returned(fr, "build", FALSE, "select")) /\ bOut' = bOut
              ELSE /\ Moves(t, [fr EXCEPT !.pc = "apply", !.helloID = "HelloCustom",
                                          !.spec = b.spec, !.addr = bOut + 1])
                   /\ bOut' = bOut + 1
    /\ CachesKept /\ UNCHANGED nops /\ CallStepKeeps

\* utls.UClient, uconn.ApplyPreset(customSpec) when there is a custom spec,
\* and the start of uconn.HandshakeContext(ctx)
ApplyPreset(t, fails) ==
    /\ threads[t].pc = "apply"
    /\ \E fr \in {threads[t]} :
         IF fr.spec # Nil /\ fails
         THEN Returns(t, returned([fr EXCEPT !.steps = @ \o <<"apply">>], "apply", FALSE,
                                  "apply"))
         ELSE Moves(t, [fr EXCEPT !.pc = "handshaking",
                                  !.steps = applyThenHandshake(@, fr.spec # Nil)])
    /\ CachesKept /\ UNCHANGED <<bOut, nops>> /\ CallStepKeeps

\* uconn.HandshakeContext(ctx) returns: the deadline passed meanwhile, the
\* handshake failed, or the connection is returned
Handshake(t, fails) ==
    /\ threads[t].pc = "handshaking"
    /\ \E fr \in {threads[t]} :
         IF fr.deadline = "past" THEN Returns(t, returned(fr, "handshake", TRUE, "handshake"))
         ELSE IF fails THEN Returns(t, returned(fr, "handshake", FALSE, "handshake"))
         ELSE Returns(t, returned(fr, "", FALSE, "done"))
    /\ CachesKept /\ UNCHANGED <<bOut, nops>> /\ CallStepKeeps

\* the configurations a caller passes: the drawn one or a nil pointer
PassedConfigs == {cfg, Nil}

NextDialer ==
    \/ \E t \in Goroutines, c \in PassedConfigs, d \in DrawnDeadlines : FpDial(t, c, d)
    \/ \E t \in Goroutines, c \in PassedConfigs, d \in DrawnDeadlines : FpUpgrade(t, c, d)
    \/ \E t \in Goroutines, c \in PassedConfigs, d \in DrawnDeadlines : Ja3Dial(t, c, d)
    \/ \E t \in Goroutines, c \in PassedConfigs, d \in DrawnDeadlines : Ja3Upgrade(t, c, d)
    \/ \E t \in Goroutines : DeadlinePasses(t)
    \/ \E t \in Goroutines : DialBegin(t)
    \/ \E t \in Goroutines, fails \in BOOLEAN : DialEnd(t, fails)
    \/ \E t \in Goroutines, fails \in BOOLEAN : SetDeadline(t, fails)
    \/ \E t \in Goroutines : Select(t)
    \/ \E t \in Goroutines : ParseStat(t)
    \/ \E t \in Goroutines : ParseOnce(t)
    \/ \E t \in Goroutines : ParseOnceStore(t)
    \/ \E t \in Goroutines : ParseGetGlobalCache(t)
    \/ \E t \in Goroutines : ParseCacheGet(t)
    \/ \E t \in Goroutines : ParseCacheMiss(t)
    \/ \E t \in Goroutines : ParseCacheTTL(t)
    \/ \E t \in Goroutines : ParseCacheHit(t)
    \/ \E t \in Goroutines : ParseRead(t)
    \/ \E t \in Goroutines : ParseCacheSet(t)
    \/ \E t \in Goroutines : LoadSpecFile(t)
    \/ \E t \in Goroutines, fails \in BOOLEAN : ApplyPreset(t, fails)
    \/ \E t \in Goroutines, fails \in BOOLEAN : Handshake(t, fails)

SpecDialer == InitDialer /\ [][NextDialer]_vars

Selected == last # Nil /\ "select" \in Range(last.steps)

\* the spec the configured file yields under the schema that decodes it
FileSpec ==
    IF file.kind = "peet" THEN BuildClientHelloSpecFromJSON(file.desc)
    ELSE BuildClientHelloSpecFromFile(file.desc, cfg.ServerName).spec

\* C1: a call that reaches the source selection uses the spec file if
\* ClientHelloSpecFile is set, else the JA3 string if JA3 is set, else the
\* named profile, else the built-in HelloChrome_Auto; a call that succeeds
\* hands the engine the spec built from that source and from no other.
C1_SourcePrecedence ==
    Selected =>
        IF cfg.ClientHelloSpecFile # ""
        THEN /\ last.source = "file"
             /\ last.err = "" => last.helloID = "HelloCustom" /\ last.spec = FileSpec
        ELSE IF cfg.JA3 # ""
        THEN /\ last.source = "ja3"
             /\ last.err = "" =>
                   /\ last.helloID = "HelloCustom"
                   /\ last.spec = BuildClientHelloSpecFromJA3(
                                      ParseJA3(Chars(cfg.JA3)).data, cfg.ServerName).spec
        ELSE IF cfg.BrowserProfile # ""
        THEN /\ last.source = "profile"
             /\ (last.err = "" /\ cfg.BrowserProfile \in DOMAIN BrowserProfiles) =>
                   /\ last.helloID = "HelloCustom"
                   /\ last.spec = BuildClientHelloSpecFromJA3(
                                      ParseJA3(Chars(BrowserProfiles[cfg.BrowserProfile])).data,
                                      cfg.ServerName).spec
             /\ (last.err = "" /\ cfg.BrowserProfile \notin DOMAIN BrowserProfiles) =>
                   last.spec = Nil
        ELSE last.source = "default" /\ last.spec = Nil
                /\ (last.err = "" => last.helloID = "HelloChrome_Auto")

C1_Witness ==
    /\ Selected /\ last.err = "" /\ last.pkg = "ja3" /\ last.entry = "dial"
    /\ cfg.ClientHelloSpecFile # "" /\ cfg.JA3 = GoodJA3
    /\ cfg.BrowserProfile = "chrome_modern"
    /\ file.kind = "peet" /\ file.exists
    /\ last.source = "file" /\ last.spec = BuildClientHelloSpecFromJSON(DescV1)

RawStreamOps == {"connect", "setDeadline", "handshake", "close"}

\* C2: a call of any of the four entry points on a configuration whose
\* deadline has already passed returns a timeout error and has attempted no
\* connect, SetDeadline, handshake or close on the network or the raw stream.
C2_PastDeadlineNoIO ==
    (last # Nil /\ last.config # Nil /\ last.deadline = "past") =>
        /\ last.isTimeout
        /\ Range(last.steps) \cap RawStreamOps = {}

\* C3: a DialTLSWithFingerprint call that opened the TCP connection and
\* returns an error closed the raw connection as its last step; one that
\* returns the TLS connection never closed it.
C3_DialClosesOnError ==
    (last # Nil /\ last.entry = "dial" /\ "connect" \in Range(last.steps)
        /\ last.err # "dial") =>
        /\ last.err # "" =>
              /\ last.steps[Len(last.steps)] = "close"
              /\ Cardinality({i \in 1..Len(last.steps) : last.steps[i] = "close"}) = 1
        /\ last.err = "" => "close" \notin Range(last.steps)

C3_Witness ==
    /\ last # Nil /\ last.entry = "dial" /\ last.pkg = "fingerprint"
    /\ last.err = "apply"
    /\ last.steps = <<"connect", "select", "apply", "close">>

\* C7: when a fingerprint-package upgrade that built a spec from the spec
\* file, the JA3 string or the named profile is followed by a second upgrade
\* with the same configuration, the second call, no other call overlapping
\* it, adds exactly one cache hit, no miss and no eviction.
C7_SecondUpgradeHitsCache ==
    (last # Nil /\ last.pkg = "fingerprint" /\ last.entry = "upgrade"
        /\ last.second /\ last.alone /\ last.err = "") =>
        last.delta = <<1, 0, 0>>

\* the ALPN extensions of a built spec
ALPNExtensionsOf(spec) ==
    {spec.Extensions[i] : i \in {j \in 1..Len(spec.Extensions) :
                                     spec.Extensions[j].type = "ALPN"}}

\* C11: in a call that built its spec from the JA3 string, the ALPN extension
\* of that spec carries the caller's ALPNProtocols when that list is not
\* empty, and <<"h2", "http/1.1">> only when the caller passed no list.
C11_ExplicitALPNWins ==
    (last # Nil /\ last.err = "" /\ last.source = "ja3" /\ last.spec # Nil) =>
        \A e \in ALPNExtensionsOf(last.spec) :
            e.data = IF cfg.ALPNProtocols # <<>> THEN cfg.ALPNProtocols
                     ELSE <<"h2", "http/1.1">>

\* C12: every spec a call built, whichever builder produced it (from the JA3
\* string or a catalog profile, from the file under the tls.peet.ws schema,
\* from the file under the custom schema), has compression methods <<0>>.
C12_CompressionMethodsNull ==
    (last # Nil /\ last.spec # Nil) => last.spec.CompressionMethods = <<0>>

\* the built-in ClientHelloID of each browser family
FamilyHelloID ==
    [chrome |-> "HelloChrome_Auto", firefox |-> "HelloFirefox_Auto",
     safari |-> "HelloSafari_Auto", edge |-> "HelloEdge_Auto",
     ios |-> "HelloIOS_Auto", android |-> "HelloAndroid_11_OkHttp"]

\* C14: a call that selects by a profile name outside the JA3 catalog uses,
\* when the name is that of a browser family, the family's built-in
\* ClientHelloID with no custom spec and no selection error; when the name is
\* of no family, the call fails with UnknownProfile.
C14_UnknownProfileFallback ==
    (Selected /\ last.source = "profile"
              /\ cfg.BrowserProfile \notin DOMAIN BrowserProfiles) =>
        IF ToLower(cfg.BrowserProfile) \in DOMAIN FamilyHelloID
        THEN /\ last.err \in {"", "handshake"}
             /\ last.helloID = FamilyHelloID[ToLower(cfg.BrowserProfile)]
             /\ last.spec = Nil
        ELSE last.err = "UnknownProfile"

\* the last call was fingerprint.UpgradeConnWithFingerprint on a configuration
FpUpgraded ==
    last # Nil /\ last.config # Nil /\ last.pkg = "fingerprint" /\ last.entry = "upgrade"

\* the positions of a step in the steps of the last call
StepAt(step) == {i \in 1..Len(last.steps) : last.steps[i] = step}

\* every occurrence of step a is before every occurrence of step b
Before(a, b) == \A i \in StepAt(a), j \in StepAt(b) : i < j

\* C24: one fingerprint.UpgradeConnWithFingerprint call checks the deadline
\* before anything else (a call with a passed deadline takes no step), then
\* selects the spec, then applies it, then starts the handshake, each once at
\* most; before the handshake the raw stream sees SetDeadline at most, no
\* read or write; the handshake is started only after a selection without
\* error and, for a custom spec, after its ApplyPreset, and not at all when
\* the precheck, SetDeadline, the selection or ApplyPreset failed.
C24_UpgradeStepOrder ==
    FpUpgraded =>
        /\ last.deadline = "past" => last.steps = <<>> /\ last.isTimeout
        /\ \A st \in {"setDeadline", "select", "apply", "handshake"} :
               Cardinality(StepAt(st)) <= 1
        /\ Before("setDeadline", "select") /\ Before("select", "apply")
        /\ Before("apply", "handshake") /\ Before("select", "handshake")
        /\ Range(last.steps) \subseteq {"setDeadline", "select", "apply", "handshake"}
        /\ "handshake" \in Range(last.steps) =>
               /\ last.steps[Len(last.steps)] = "handshake"
               /\ "select" \in Range(last.steps)
               /\ last.err \in {"", "handshake"}
               /\ last.spec # Nil => "apply" \in Range(last.steps)
        /\ last.err \notin {"", "handshake"} => "handshake" \notin Range(last.steps)

\* an upgrade under a deadline has gone through every step
C24_Witness ==
    /\ FpUpgraded /\ last.err = "" /\ last.deadline = "future"
    /\ last.steps = <<"setDeadline", "select", "apply", "handshake">>

\* the source that the precedence rule picks cannot yield a spec
ChosenSourceFails ==
    \/ cfg.ClientHelloSpecFile # "" /\ (~file.exists \/ file.kind = "malformed")
    \/ cfg.ClientHelloSpecFile = "" /\ cfg.JA3 # "" /\ ParseJA3(Chars(cfg.JA3)).err # ""

\* C25: a call that reaches the selection while the chosen source cannot
\* yield a spec returns the error of that source, starts no handshake and
\* uses no other source; a file that parses under the tls.peet.ws schema is
\* never built under the custom schema, which is used only for a file the
\* first parse rejected.
C25_NoFallbackAcrossSources ==
    Selected =>
        /\ ChosenSourceFails =>
               /\ last.err \in {"load", "parseJA3"}
               /\ last.source = chosenSource(cfg)
               /\ last.spec = Nil /\ last.helloID = ""
               /\ Range(last.steps) \cap {"apply", "handshake"} = {}
        /\ (cfg.ClientHelloSpecFile # "" /\ file.exists /\ last.err \in {"", "apply", "handshake"}) =>
               last.spec = IF file.kind = "peet"
                           THEN BuildClientHelloSpecFromJSON(file.desc)
                           ELSE BuildClientHelloSpecFromFile(file.desc, cfg.ServerName).spec

\* the spec file is malformed while a JA3 string and a profile are configured
C25_Witness ==
    /\ Selected /\ cfg.ClientHelloSpecFile # "" /\ file.exists /\ file.kind = "malformed"
    /\ cfg.JA3 = GoodJA3 /\ cfg.BrowserProfile = "chrome_modern"
    /\ last.err = "load" /\ last.spec = Nil

(***************************************************************************)
(* SpecParse: ParseClientHelloJSON called by two goroutines on one path    *)
(* while the file is rewritten, the clock advances and InitGlobalCache     *)
(* installs caches.  A call takes the steps of the dialers' file branch,   *)
(* and the writes, the ticks and InitGlobalCache fall between them.        *)
(***************************************************************************)
DrawnGlobalConfigs ==
    {Nil,
     [Enabled |-> FALSE, MaxSize |-> 1, TTL |-> 0, MetricsEnabled |-> TRUE],
     [Enabled |-> TRUE, MaxSize |-> 1, TTL |-> 1, MetricsEnabled |-> TRUE]}

InitParse ==
    /\ file \in {NoFile, FileOf("peet", DescV1, 0)}
    /\ threads = [t \in Goroutines |-> NoCall]
    /\ lru = <<>> /\ globalCache = 0 /\ onceDone = FALSE
    /\ bOut = 0
    /\ now = 0 /\ last = Nil /\ nops = 0
    /\ cfg = Nil /\ bIn = Nil /\ lastOp = Nil /\ run = Nil /\ everSet = {}

ParseOp == nops < MaxOps /\ nops' = nops + 1

\* The file is written at the current time.
WriteFile(kind, desc) ==
    /\ ParseOp
    /\ file' = FileOf(kind, desc, now)
    /\ UNCHANGED <<threads, bIn, bOut, lru, now, lastOp, run, globalCache, onceDone, cfg, last,
                   everSet>>

\* the clock advances by d ticks
ParseTick(d) ==
    /\ ParseOp
    /\ now' = now + d
    /\ UNCHANGED <<threads, bIn, bOut, lru, lastOp, run, globalCache, onceDone, file, cfg, last,
                   everSet>>

\* the file is a tls.peet.ws file whose modification time and content both
\* differ from those of the file that the last call, a successful parse
\* during which nobody wrote the file, was made on
FileChanged ==
    /\ last # Nil /\ last.entry = "parse" /\ last.err = "" /\ last.quiet
    /\ file.exists /\ file.kind = "peet"
    /\ file.mtime # last.file0.mtime /\ file.desc # last.file0.desc

\* ParseClientHelloJSON(SpecPath) is called by a goroutine inside no call.
Parse(t) ==
    /\ \E u \in Goroutines : threads[u].pc = "idle"
    /\ t = Caller
    /\ ParseOp
    /\ Starts(t, ParseClientHelloJSON(
                     [begin("fingerprint", "parse", Nil, "none", t) EXCEPT
                         !.changed = FileChanged], SpecPath))
    /\ CachesKept /\ bOut' = bOut /\ CallStepKeeps

\* InitGlobalCache(config) is called while no other call of it is under way:
\* cache, err := NewLRUCache(config), which reads the clock.  run is the
\* local variable cache of the call under way.
CallInitGlobalCache(config) ==
    /\ ParseOp
    /\ run = Nil
    /\ lru' = Append(lru, InitGlobalCache(config, now))
    /\ run' = [cache |-> Len(lru) + 1]
    /\ UNCHANGED <<threads, bIn, bOut, now, lastOp, globalCache, onceDone, file, cfg, last,
                   everSet>>

\* globalCacheMu.Lock(); globalCache = cache; globalCacheMu.Unlock(); return nil
CallInitGlobalCacheStore ==
    /\ run # Nil
    /\ globalCache' = run.cache
    /\ run' = Nil
    /\ UNCHANGED <<threads, bIn, bOut, lru, now, lastOp, onceDone, file, cfg, last, nops,
                   everSet>>

NextParse ==
    \/ \E d \in {DescV1, DescV2} : WriteFile("peet", d)
    \/ WriteFile("malformed", Nil)
    \/ \E d \in 1..TicksPerSecond : ParseTick(d)
    \/ \E c \in DrawnGlobalConfigs : CallInitGlobalCache(c)
    \/ CallInitGlobalCacheStore
    \/ \E t \in Goroutines : Parse(t)
    \/ \E t \in Goroutines : ParseStat(t)
    \/ \E t \in Goroutines : ParseOnce(t)
    \/ \E t \in Goroutines : ParseOnceStore(t)
    \/ \E t \in Goroutines : ParseGetGlobalCache(t)
    \/ \E t \in Goroutines : ParseCacheGet(t)
    \/ \E t \in Goroutines : ParseCacheMiss(t)
    \/ \E t \in Goroutines : ParseCacheTTL(t)
    \/ \E t \in Goroutines : ParseCacheHit(t)
    \/ \E t \in Goroutines : ParseCacheRUnlock(t)
    \/ \E t \in Goroutines : ParseCacheRemove(t)
    \/ \E t \in Goroutines : ParseCountMiss(t)
    \/ \E t \in Goroutines : ParseCountEviction(t)
    \/ \E t \in Goroutines : ParseRead(t)
    \/ \E t \in Goroutines : ParseCacheSet(t)

SpecParse == InitParse /\ [][NextParse]_vars

\* C8: when the file's modification time and content differ from those the
\* previous successful ParseClientHelloJSON saw, the next call, which no
\* other call overlaps and during which nobody writes the file, misses the
\* cache and returns the spec built from the present content.
C8_MtimeChangeInvalidates ==
    (last # Nil /\ last.entry = "parse" /\ last.changed /\ last.alone /\ last.quiet) =>
        /\ ~last.hit
        /\ last.err = ""
        /\ last.spec = BuildClientHelloSpecFromJSON(last.file0.desc)

(***************************************************************************)
(* SpecHTTP2: the HTTP/2 configuration functions called one after another. *)
(* cfg is the http2.Transport the caller holds: ConfigureHTTP2Transport    *)
(* writes its knobs, GetHTTP2Transport, NewHTTP2Transport and              *)
(* NewHTTP2Client hand the caller a new one.  last is the last call, what  *)
(* it returned and the call before it.  Durations are seconds.             *)
(***************************************************************************)
SettingsHeaderTableSize == 1
SettingsEnablePush == 2
SettingsMaxConcurrentStreams == 3
SettingsInitialWindowSize == 4
SettingsMaxFrameSize == 5
SettingsMaxHeaderListSize == 6

\* a map[uint16]uint32 literal
SettingsMap(pairs) ==
    [k \in {p[1] : p \in pairs} |-> (CHOOSE p \in pairs : p[1] = k)[2]]

\* The catalog has six shapes of entry; the entries of one shape differ in
\* Name alone.
ChromeHTTP2Profile(name) ==
    [Name |-> name,
     Fingerprint |-> "1:65536;2:0;3:100;4:6291456;6:262144|15663105|0|m,a,s,p",
     Settings |-> SettingsMap({<<1, 65536>>, <<2, 0>>, <<3, 100>>, <<4, 6291456>>,
                               <<6, 262144>>}),
     WindowUpdate |-> 15663105, Priority |-> [StreamDependency |-> 0, Weight |-> 255,
                                              Exclusive |-> TRUE],
     HeaderTableSize |-> 65536, PseudoHeaderOrder |-> "m,a,s,p"]

FirefoxHTTP2Profile(name) ==
    [Name |-> name,
     Fingerprint |-> "1:65536;2:0;4:131072;5:16384|12517377|0|m,p,a,s",
     Settings |-> SettingsMap({<<1, 65536>>, <<2, 0>>, <<4, 131072>>, <<5, 16384>>}),
     WindowUpdate |-> 12517377, Priority |-> [StreamDependency |-> 0, Weight |-> 255,
                                              Exclusive |-> FALSE],
     HeaderTableSize |-> 65536, PseudoHeaderOrder |-> "m,p,a,s"]

SafariHTTP2Profile(name) ==
    [Name |-> name,
     Fingerprint |-> "2:0;3:100;4:6291456;6:262144|15663105|0|m,a,s,p",
     Settings |-> SettingsMap({<<2, 0>>, <<3, 100>>, <<4, 6291456>>, <<6, 262144>>}),
     WindowUpdate |-> 15663105, Priority |-> [StreamDependency |-> 0, Weight |-> 255,
                                              Exclusive |-> TRUE],
     HeaderTableSize |-> 4096, PseudoHeaderOrder |-> "m,a,s,p"]

CurlHTTP2Profile ==
    [Name |-> "curl 8.x",
     Fingerprint |-> "2:0;3:100;4:1048576|1048576|0|m,a,s,p",
     Settings |-> SettingsMap({<<2, 0>>, <<3, 100>>, <<4, 1048576>>}),
     WindowUpdate |-> 1048576, Priority |-> Nil,
     HeaderTableSize |-> 4096, PseudoHeaderOrder |-> "m,a,s,p"]

GoHTTP2Profile ==
    [Name |-> "Go HTTP Client",
     Fingerprint |-> "3:100;4:1048576;6:262144|1048576|0|m,a,s,p",
     Settings |-> SettingsMap({<<3, 100>>, <<4, 1048576>>, <<6, 262144>>}),
     WindowUpdate |-> 1048576, Priority |-> Nil,
     HeaderTableSize |-> 4096, PseudoHeaderOrder |-> "m,a,s,p"]

OkHTTP2Profile ==
    [Name |-> "OkHttp Android",
     Fingerprint |-> "1:65536;2:1;3:1000;4:6291456|10485760|0|m,a,s,p",
     Settings |-> SettingsMap({<<1, 65536>>, <<2, 1>>, <<3, 1000>>, <<4, 6291456>>}),
     WindowUpdate |-> 10485760, Priority |-> Nil,
     HeaderTableSize |-> 65536, PseudoHeaderOrder |-> "m,a,s,p"]

\* HTTP2ProfilesDB, its 26 entries in the order of the source
HTTP2ProfilesDB ==
    ("chrome_120" :> ChromeHTTP2Profile("Chrome 120"))
    @@ ("chrome_108" :> ChromeHTTP2Profile("Chrome 108"))
    @@ ("firefox_120" :> FirefoxHTTP2Profile("Firefox 120"))
    @@ ("firefox_102" :> FirefoxHTTP2Profile("Firefox 102"))
    @@ ("safari_17" :> SafariHTTP2Profile("Safari 17"))
    @@ ("safari_ios_17" :> SafariHTTP2Profile("Safari iOS 17"))
    @@ ("edge_120" :> ChromeHTTP2Profile("Edge 120"))
    @@ ("android_chrome" :> ChromeHTTP2Profile("Chrome Android"))
    @@ ("brave_browser" :> ChromeHTTP2Profile("Brave Browser"))
    @@ ("samsung_internet" :> ChromeHTTP2Profile("Samsung Internet"))
    @@ ("firefox_android" :> FirefoxHTTP2Profile("Firefox Android"))
    @@ ("safari_ipad" :> SafariHTTP2Profile("Safari iPad"))
    @@ ("opera_gx" :> ChromeHTTP2Profile("Opera GX"))
    @@ ("vivaldi" :> ChromeHTTP2Profile("Vivaldi"))
    @@ ("tor_browser" :> FirefoxHTTP2Profile("Tor Browser"))
    @@ ("yandex_browser" :> ChromeHTTP2Profile("Yandex Browser"))
    @@ ("uc_browser" :> ChromeHTTP2Profile("UC Browser"))
    @@ ("whale_browser" :> ChromeHTTP2Profile("Naver Whale"))
    @@ ("edge_mobile" :> ChromeHTTP2Profile("Edge Mobile"))
    @@ ("opera_mobile" :> ChromeHTTP2Profile("Opera Mobile"))
    @@ ("duckduckgo_browser" :> ChromeHTTP2Profile("DuckDuckGo Browser"))
    @@ ("ecosia_browser" :> ChromeHTTP2Profile("Ecosia Browser"))
    @@ ("maxthon_browser" :> ChromeHTTP2Profile("Maxthon Browser"))
    @@ ("curl_latest" :> CurlHTTP2Profile)
    @@ ("go_http" :> GoHTTP2Profile)
    @@ ("okhttp_android" :> OkHTTP2Profile)

\* the Chrome-family profiles: Chrome and the browsers built on it, whose
\* entries have the fingerprint of chrome_120
ChromeFamily ==
    {n \in DOMAIN HTTP2ProfilesDB :
        HTTP2ProfilesDB[n].Fingerprint = HTTP2ProfilesDB["chrome_120"].Fingerprint}

\* GetHTTP2Profile(name): [ok, profile]
GetHTTP2Profile(name) ==
    IF name \in DOMAIN HTTP2ProfilesDB
    THEN [ok |-> TRUE, profile |-> HTTP2ProfilesDB[name]]
    ELSE [ok |-> FALSE, profile |-> Nil]

\* the read idle timeout with the 15 s tier left out
readIdleTimeoutTwoTiers(windowUpdate) ==
    IF windowUpdate > 10000000 THEN 30 ELSE 10

\* the read idle timeout ConfigureHTTP2Transport picks for a WINDOW_UPDATE
readIdleTimeout(windowUpdate) ==
    IF windowUpdate > 10000000 THEN 30
    ELSE IF windowUpdate > 1000000 THEN 15
    ELSE 10

\* the transport after the profile's knobs are applied to it
applyHTTP2Profile(transport, profile) ==
    [transport EXCEPT
        !.MaxHeaderListSize =
            IF SettingsMaxHeaderListSize \in DOMAIN profile.Settings
            THEN profile.Settings[SettingsMaxHeaderListSize] ELSE @,
        !.StrictMaxConcurrentStreams =
            IF SettingsMaxConcurrentStreams \in DOMAIN profile.Settings
            THEN profile.Settings[SettingsMaxConcurrentStreams] > 0 ELSE @,
        !.ReadIdleTimeout = readIdleTimeout(profile.WindowUpdate),
        !.AllowHTTP = FALSE]

\* fmt.Errorf("HTTP/2 profile not found: %s", profileName)
profileNotFound(profileName) == "HTTP/2 profile not found: " \o profileName

\* ConfigureHTTP2Transport(transport, profileName): [err, transport]
ConfigureHTTP2Transport(transport, profileName) ==
    With(GetHTTP2Profile(profileName),
         LAMBDA g : IF ~g.ok
                    THEN [err |-> profileNotFound(profileName), transport |-> transport]
                    ELSE [err |-> "", transport |-> applyHTTP2Profile(transport, g.profile)])

\* &http2.Transport{}: every field at its zero value
FreshTransport ==
    [TLSClientConfig |-> Nil, DisableCompression |-> FALSE, AllowHTTP |-> FALSE,
     MaxHeaderListSize |-> 0, StrictMaxConcurrentStreams |-> FALSE,
     ReadIdleTimeout |-> 0, PingTimeout |-> 0]

\* GetHTTP2Transport(tlsConfig, profileName): [err, transport], a nil
\* transport with the error
GetHTTP2Transport(tlsConfig, profileName) ==
    With(ConfigureHTTP2Transport([FreshTransport EXCEPT !.TLSClientConfig = tlsConfig],
                                 profileName),
         LAMBDA r : IF r.err # "" THEN [err |-> r.err, transport |-> Nil] ELSE r)

\* &tls.Config{}
SomeTLSConfig == [InsecureSkipVerify |-> FALSE]

\* a non-nil *uint32 or *time.Duration
Ptr(v) == [v |-> v]

\* &HTTP2TransportConfig{}
NoTransportConfig ==
    [TLSConfig |-> Nil, ProfileName |-> "", MaxHeaderListSize |-> Nil,
     ReadIdleTimeout |-> Nil, PingTimeout |-> Nil, DisableCompression |-> FALSE,
     AllowHTTP |-> FALSE]

\* the overrides of NewHTTP2Transport, applied after the profile
applyOverrides(transport, config) ==
    [transport EXCEPT
        !.MaxHeaderListSize = IF config.MaxHeaderListSize # Nil
                              THEN config.MaxHeaderListSize.v ELSE @,
        !.ReadIdleTimeout = IF config.ReadIdleTimeout # Nil
                            THEN config.ReadIdleTimeout.v ELSE @,
        !.PingTimeout = IF config.PingTimeout # Nil THEN config.PingTimeout.v ELSE @]

\* NewHTTP2Transport(config): [err, transport]
NewHTTP2Transport(config) ==
    With(IF config = Nil THEN NoTransportConfig ELSE config,
         LAMBDA c :
             With([FreshTransport EXCEPT !.TLSClientConfig = c.TLSConfig,
                                         !.DisableCompression = c.DisableCompression,
                                         !.AllowHTTP = c.AllowHTTP],
                  LAMBDA t0 :
                      With(IF c.ProfileName # ""
                           THEN ConfigureHTTP2Transport(t0, c.ProfileName)
                           ELSE [err |-> "", transport |-> t0],
                           LAMBDA r : IF r.err # ""
                                      THEN [err |-> r.err, transport |-> Nil]
                                      ELSE [err |-> "",
                                            transport |-> applyOverrides(r.transport, c)])))

\* NewHTTP2Client(config): [err, client]; an http.Client is [Transport, Timeout]
NewHTTP2Client(config) ==
    IF config = Nil THEN [err |-> "HTTP2ClientConfig is nil", client |-> Nil]
    ELSE With(GetHTTP2Transport(config.TLSConfig,
                                IF config.HTTP2Profile = "" THEN config.BrowserProfile
                                ELSE config.HTTP2Profile),
              LAMBDA r :
                  IF r.err # ""
                  THEN [err |-> "failed to create HTTP/2 transport: " \o r.err,
                        client |-> Nil]
                  ELSE [err |-> "",
                        client |->
                            [Transport |->
                                 IF config.ReadIdleTimeout > 0
                                 THEN [r.transport EXCEPT
                                          !.ReadIdleTimeout = config.ReadIdleTimeout]
                                 ELSE r.transport,
                             Timeout |-> IF config.RequestTimeout > 0
                                         THEN config.RequestTimeout ELSE 0]])

\* one warning when the profile has the setting
settingWarning(profile, id, text) ==
    IF id \in DOMAIN profile.Settings THEN <<text>> ELSE <<>>

enablePushWarning(profile) ==
    IF SettingsEnablePush \in DOMAIN profile.Settings
       /\ profile.Settings[SettingsEnablePush] # 0
    THEN <<"SETTINGS_ENABLE_PUSH is always 0 in Go (HTTP/2 push deprecated)">>
    ELSE <<>>

windowUpdateWarning(profile) ==
    IF profile.WindowUpdate # 0 /\ profile.WindowUpdate # 65535
    THEN <<"Initial WINDOW_UPDATE (" \o ToString(profile.WindowUpdate)
               \o ") cannot be configured">>
    ELSE <<>>

pseudoHeaderWarning(profile) ==
    IF profile.PseudoHeaderOrder # "" /\ profile.PseudoHeaderOrder # "m,a,s,p"
    THEN <<"Pseudo-header order '" \o profile.PseudoHeaderOrder
               \o "' cannot be configured (library uses 'm,a,s,p')">>
    ELSE <<>>

priorityWarning(profile) ==
    IF profile.Priority # Nil
    THEN <<"PRIORITY frames are not sent by Go HTTP/2 client">>
    ELSE <<>>

\* the warnings of ValidateHTTP2Config, in the order the code appends them
http2Warnings(profile) ==
    settingWarning(profile, SettingsHeaderTableSize,
        "SETTINGS_HEADER_TABLE_SIZE cannot be configured (http2 library limitation)")
    \o enablePushWarning(profile)
    \o settingWarning(profile, SettingsInitialWindowSize,
        "SETTINGS_INITIAL_WINDOW_SIZE cannot be configured directly")
    \o settingWarning(profile, SettingsMaxFrameSize,
        "SETTINGS_MAX_FRAME_SIZE is hardcoded to 16384")
    \o windowUpdateWarning(profile)
    \o pseudoHeaderWarning(profile)
    \o priorityWarning(profile)

\* ValidateHTTP2Config(profileName): [err, warnings]
ValidateHTTP2Config(profileName) ==
    With(GetHTTP2Profile(profileName),
         LAMBDA g : IF ~g.ok
                    THEN [err |-> profileNotFound(profileName), warnings |-> <<>>]
                    ELSE [err |-> "", warnings |-> http2Warnings(g.profile)])

\* every name of the catalog and the unknown names of the tests
DrawnHTTP2Names == DOMAIN HTTP2ProfilesDB \cup {"nonexistent_browser", "invalid"}

\* the configurations of TestNewHTTP2Transport, one with every override and
\* one with an unknown profile
DrawnTransportConfigs ==
    {Nil,
     [NoTransportConfig EXCEPT !.TLSConfig = SomeTLSConfig, !.ProfileName = "chrome_120"],
     [NoTransportConfig EXCEPT !.TLSConfig = SomeTLSConfig, !.ProfileName = "firefox_120",
                               !.MaxHeaderListSize = Ptr(500000),
                               !.ReadIdleTimeout = Ptr(60)],
     [NoTransportConfig EXCEPT !.TLSConfig = SomeTLSConfig],
     [NoTransportConfig EXCEPT !.ProfileName = "go_http", !.MaxHeaderListSize = Ptr(0),
                               !.ReadIdleTimeout = Ptr(5), !.PingTimeout = Ptr(7),
                               !.DisableCompression = TRUE, !.AllowHTTP = TRUE],
     [NoTransportConfig EXCEPT !.ProfileName = "invalid", !.AllowHTTP = TRUE]}

\* &HTTP2ClientConfig{}
NoClientConfig ==
    [TLSConfig |-> Nil, BrowserProfile |-> "", HTTP2Profile |-> "",
     RequestTimeout |-> 0, ReadIdleTimeout |-> 0]

\* the configurations of TestNewHTTP2Client and one with a read idle timeout
DrawnClientConfigs ==
    {Nil,
     [NoClientConfig EXCEPT !.TLSConfig = SomeTLSConfig, !.BrowserProfile = "chrome_120",
                            !.RequestTimeout = 30],
     [NoClientConfig EXCEPT !.TLSConfig = SomeTLSConfig, !.BrowserProfile = "chrome_120",
                            !.HTTP2Profile = "firefox_120"],
     [NoClientConfig EXCEPT !.TLSConfig = SomeTLSConfig, !.HTTP2Profile = "invalid"],
     [NoClientConfig EXCEPT !.BrowserProfile = "curl_latest", !.ReadIdleTimeout = 45]}

\* the transport of the tests, &http2.Transport{TLSClientConfig: &tls.Config{}},
\* and one that its creator lets carry plain HTTP
InitHTTP2 ==
    /\ cfg \in {[FreshTransport EXCEPT !.TLSClientConfig = SomeTLSConfig, !.AllowHTTP = a] :
                   a \in BOOLEAN}
    /\ last = Nil /\ nops = 0
    /\ bIn = Nil /\ bOut = Nil
    /\ lru = Nil /\ now = 0 /\ lastOp = Nil /\ run = Nil
    /\ globalCache = Nil /\ onceDone = FALSE /\ file = Nil /\ everSet = {} /\ threads = Nil

\* the call before this one, as the next call remembers it
Previous == IF last = Nil THEN Nil ELSE [op |-> last.op, name |-> last.name, err |-> last.err]

HTTP2Op == nops < MaxConfigs /\ nops' = nops + 1

CallConfigureHTTP2Transport(name) ==
    /\ HTTP2Op
    /\ \E r \in {ConfigureHTTP2Transport(cfg, name)} :
           /\ cfg' = r.transport
           /\ last' = [op |-> "ConfigureHTTP2Transport", name |-> name, err |-> r.err,
                       before |-> cfg, warnings |-> <<>>, timeout |-> 0,
                       prev |-> Previous]
    /\ UNCHANGED <<threads, bIn, bOut, lru, now, lastOp, run, globalCache, onceDone, file, everSet>>

CallValidateHTTP2Config(name) ==
    /\ HTTP2Op
    /\ \E r \in {ValidateHTTP2Config(name)} :
           last' = [op |-> "ValidateHTTP2Config", name |-> name, err |-> r.err,
                    before |-> cfg, warnings |-> r.warnings, timeout |-> 0,
                    prev |-> Previous]
    /\ UNCHANGED <<threads, bIn, bOut, lru, now, lastOp, run, globalCache, onceDone, file, cfg, everSet>>

\* the caller holds the transport a creator returned; after an error it holds
\* the one it had
CallGetHTTP2Transport(name) ==
    /\ HTTP2Op
    /\ \E r \in {GetHTTP2Transport(SomeTLSConfig, name)} :
           /\ cfg' = IF r.err = "" THEN r.transport ELSE cfg
           /\ last' = [op |-> "GetHTTP2Transport", name |-> name, err |-> r.err,
                       before |-> cfg, warnings |-> <<>>, timeout |-> 0,
                       prev |-> Previous]
    /\ UNCHANGED <<threads, bIn, bOut, lru, now, lastOp, run, globalCache, onceDone, file, everSet>>

CallNewHTTP2Transport(config) ==
    /\ HTTP2Op
    /\ \E r \in {NewHTTP2Transport(config)} :
           /\ cfg' = IF r.err = "" THEN r.transport ELSE cfg
           /\ last' = [op |-> "NewHTTP2Transport",
                       name |-> IF config = Nil THEN "" ELSE config.ProfileName,
                       err |-> r.err, before |-> cfg, warnings |-> <<>>, timeout |-> 0,
                       prev |-> Previous]
    /\ UNCHANGED <<threads, bIn, bOut, lru, now, lastOp, run, globalCache, onceDone, file, everSet>>

CallNewHTTP2Client(config) ==
    /\ HTTP2Op
    /\ \E r \in {NewHTTP2Client(config)} :
           /\ cfg' = IF r.err = "" THEN r.client.Transport ELSE cfg
           /\ last' = [op |-> "NewHTTP2Client",
                       name |-> IF config = Nil THEN ""
                                ELSE IF config.HTTP2Profile = "" THEN config.BrowserProfile
                                ELSE config.HTTP2Profile,
                       err |-> r.err, before |-> cfg, warnings |-> <<>>,
                       timeout |-> IF r.err = "" THEN r.client.Timeout ELSE 0,
                       prev |-> Previous]
    /\ UNCHANGED <<threads, bIn, bOut, lru, now, lastOp, run, globalCache, onceDone, file, everSet>>

NextHTTP2 ==
    \/ \E n \in DrawnHTTP2Names : CallConfigureHTTP2Transport(n)
    \/ \E n \in DrawnHTTP2Names : CallValidateHTTP2Config(n)
    \/ \E n \in {"chrome_120", "firefox_120", "invalid"} : CallGetHTTP2Transport(n)
    \/ \E c \in DrawnTransportConfigs : CallNewHTTP2Transport(c)
    \/ \E c \in DrawnClientConfigs : CallNewHTTP2Client(c)

SpecHTTP2 == InitHTTP2 /\ [][NextHTTP2]_vars

\* the last call was ConfigureHTTP2Transport
Configured == last # Nil /\ last.op = "ConfigureHTTP2Transport"

\* C21: after ConfigureHTTP2Transport succeeds for a catalog profile p the
\* transport has MaxHeaderListSize equal to p's setting 6 when p has it,
\* StrictMaxConcurrentStreams true when p has a non-zero setting 3,
\* ReadIdleTimeout 30 s / 15 s / 10 s for WindowUpdate above 10,000,000 /
\* above 1,000,000 / otherwise, and AllowHTTP false; the call fails exactly
\* for a name that is not in the catalog; chrome_120 gives 262144, true, 30 s.
C21_ConfiguredKnobs ==
    Configured =>
        /\ last.err # "" <=> last.name \notin DOMAIN HTTP2ProfilesDB
        /\ last.err = "" =>
               \E p \in {HTTP2ProfilesDB[last.name]} :
                   /\ 6 \in DOMAIN p.Settings => cfg.MaxHeaderListSize = p.Settings[6]
                   /\ (3 \in DOMAIN p.Settings /\ p.Settings[3] # 0)
                          => cfg.StrictMaxConcurrentStreams
                   /\ cfg.ReadIdleTimeout =
                          (IF p.WindowUpdate > 10000000 THEN 30
                           ELSE IF p.WindowUpdate > 1000000 THEN 15 ELSE 10)
                   /\ ~cfg.AllowHTTP
        /\ (last.err = "" /\ last.name = "chrome_120") =>
               /\ cfg.MaxHeaderListSize = 262144
               /\ cfg.StrictMaxConcurrentStreams
               /\ cfg.ReadIdleTimeout = 30

\* chrome_120 has been applied to a transport that allowed HTTP
C21_Witness ==
    /\ Configured /\ last.err = "" /\ last.name = "chrome_120"
    /\ last.before.AllowHTTP
    /\ cfg.MaxHeaderListSize = 262144 /\ cfg.StrictMaxConcurrentStreams
    /\ cfg.ReadIdleTimeout = 30 /\ ~cfg.AllowHTTP

\* ValidateHTTP2Config has returned the warnings of a Chrome-family profile
ValidatedChrome ==
    last # Nil /\ last.op = "ValidateHTTP2Config" /\ last.name \in ChromeFamily

\* the warnings whose text names the given limitation
WarningsAbout(w) ==
    {i \in 1..Len(last.warnings) :
        \E k \in 0..(Len(last.warnings[i]) - Len(w)) :
            SubSeq(last.warnings[i], k + 1, k + Len(w)) = w}

\* C22: for a Chrome-family profile ValidateHTTP2Config returns exactly four
\* warnings, one each for HEADER_TABLE_SIZE, INITIAL_WINDOW_SIZE,
\* MAX_FRAME_SIZE and the non-default initial WINDOW_UPDATE, and no others.
C22_FourNamedWarnings ==
    ValidatedChrome =>
        /\ last.err = ""
        /\ Len(last.warnings) = 4
        /\ Cardinality(WarningsAbout("HEADER_TABLE_SIZE")) = 1
        /\ Cardinality(WarningsAbout("INITIAL_WINDOW_SIZE")) = 1
        /\ Cardinality(WarningsAbout("MAX_FRAME_SIZE")) = 1
        /\ Cardinality(WarningsAbout("WINDOW_UPDATE")) = 1

\* the four knobs ConfigureHTTP2Transport writes
Knobs(t) ==
    <<t.MaxHeaderListSize, t.StrictMaxConcurrentStreams, t.ReadIdleTimeout, t.AllowHTTP>>

\* C30: when ConfigureHTTP2Transport(t, A) and then ConfigureHTTP2Transport(t, B)
\* have succeeded on one transport, its four knobs are those of
\* ConfigureHTTP2Transport on a fresh transport with B; a call with an unknown
\* name leaves every field of the transport as it was.
C30_LastProfileDecides ==
    Configured =>
        IF last.err = ""
        THEN (last.prev # Nil /\ last.prev.op = "ConfigureHTTP2Transport"
                 /\ last.prev.err = "")
                => Knobs(cfg) = Knobs(ConfigureHTTP2Transport(FreshTransport, last.name).transport)
        ELSE cfg = last.before

(***************************************************************************)
(* SpecSniffer: Sniffer.terminateTLS on drawn sniffer settings and client  *)
(* hellos.  bIn is the input [h, clientHello, roHost], bOut what the call  *)
(* reached: the host and the ALPN list it hands to the downstream          *)
(* tls.Server.  The upstream handshake and what the peer negotiated are    *)
(* choices of the environment.                                             *)
(***************************************************************************)
\* bytealg.IndexByteString and LastIndexByteString, counting from 1: 0 when
\* the byte is not in the string
IndexByteString(s, c) ==
    IF \E i \in 1..Len(s) : SubSeq(s, i, i) = c
    THEN CHOOSE i \in 1..Len(s) :
             SubSeq(s, i, i) = c /\ \A j \in 1..(i - 1) : SubSeq(s, j, j) # c
    ELSE 0

LastIndexByteString(s, c) ==
    IF \E i \in 1..Len(s) : SubSeq(s, i, i) = c
    THEN CHOOSE i \in 1..Len(s) :
             SubSeq(s, i, i) = c /\ \A j \in (i + 1)..Len(s) : SubSeq(s, j, j) # c
    ELSE 0

addrErr(why) == [host |-> "", port |-> "", err |-> why]

\* the end of net.SplitHostPort: no "[" from position j on, no "]" from
\* position k on, the port after the last colon, at position i
splitHostPortEnd(hostport, host, i, j, k) ==
    IF IndexByteString(SubSeq(hostport, j, Len(hostport)), "[") # 0
    THEN addrErr("unexpected '[' in address")
    ELSE IF IndexByteString(SubSeq(hostport, k, Len(hostport)), "]") # 0
    THEN addrErr("unexpected ']' in address")
    ELSE [host |-> host, port |-> SubSeq(hostport, i + 1, Len(hostport)), err |-> ""]

\* net.SplitHostPort(hostport): [host, port, err]
SplitHostPort(hostport) ==
    LET i == LastIndexByteString(hostport, ":")
        end == IndexByteString(hostport, "]")
    IN  IF i = 0 THEN addrErr("missing port in address")
        ELSE IF SubSeq(hostport, 1, 1) = "["
        THEN IF end = 0 THEN addrErr("missing ']' in address")
             ELSE IF end = Len(hostport) THEN addrErr("missing port in address")
             ELSE IF end + 1 = i
             THEN splitHostPortEnd(hostport, SubSeq(hostport, 2, end - 1), i, 2, end + 1)
             ELSE IF SubSeq(hostport, end + 1, end + 1) = ":"
             THEN addrErr("too many colons in address")
             ELSE addrErr("missing port in address")
        ELSE IF IndexByteString(SubSeq(hostport, 1, i - 1), ":") # 0
        THEN addrErr("too many colons in address")
        ELSE splitHostPortEnd(hostport, SubSeq(hostport, 1, i - 1), i, 1, 1)

\* the custom fingerprint path is taken
UsesFingerprint(h) == h.JA3 # "" \/ h.ClientHelloSpecFile # "" \/ h.BrowserProfile # ""

\* nextProtos before the upstream handshake
upstreamNextProtos(h, clientHello) ==
    IF h.NegotiatedProtocol # "" THEN <<h.NegotiatedProtocol>>
    ELSE clientHello.SupportedProtos

\* host before net.SplitHostPort: the server name, else (standard path only)
\* the peer certificate's common name, else the recorded host
fallbackHost(serverName, isTLSConn, commonName, roHost) ==
    IF serverName # "" THEN serverName
    ELSE IF isTLSConn /\ commonName # "" THEN commonName
    ELSE roHost

\* if h, _, _ := net.SplitHostPort(host); h != "" { host = h }
stripPort(host) ==
    With(SplitHostPort(host).host, LAMBDA h : IF h # "" THEN h ELSE host)

\* the protocol the sniffer takes as negotiated: the configured one, else
\* what the connection state says, which only a *tls.Conn has
negotiatedProtocol(h, isTLSConn, csProto) ==
    IF h.NegotiatedProtocol # "" THEN h.NegotiatedProtocol
    ELSE IF isTLSConn THEN csProto
    ELSE ""

\* the NextProtos of the downstream tls.Server config
downstreamNextProtos(proto) == IF proto # "" THEN <<proto>> ELSE <<>>

\* terminateTLS up to the downstream handshake, for an upstream handshake
\* that went well (upOK), a peer that chose csProto and sent commonName
terminateTLS(h, clientHello, roHost, upOK, csProto, commonName) ==
    IF ~upOK
    THEN [err |-> "upstream handshake", utls |-> UsesFingerprint(h),
          host |-> "", nextProtos |-> <<>>, offered |-> upstreamNextProtos(h, clientHello)]
    ELSE [err |-> "", utls |-> UsesFingerprint(h),
          host |-> stripPort(fallbackHost(clientHello.ServerName, ~UsesFingerprint(h),
                                          commonName, roHost)),
          nextProtos |-> downstreamNextProtos(
                             negotiatedProtocol(h, ~UsesFingerprint(h), csProto)),
          offered |-> upstreamNextProtos(h, clientHello)]

DrawnSniffers ==
    {[JA3 |-> s[1], ClientHelloSpecFile |-> s[2], BrowserProfile |-> s[3],
      NegotiatedProtocol |-> n] :
        s \in {<<"", "", "">>, <<"771,4865,0,29,0", "", "">>, <<"", "hello.json", "">>,
               <<"", "", "chrome_modern">>},
        n \in {"", "h2", "http/1.1"}}

DrawnClientHellos ==
    [ServerName : {"", "example.com"},
     SupportedProtos : {<<>>, <<"http/1.1">>, <<"h2", "http/1.1">>}]

\* recorded hosts: none, with a port, a bare name, and IPv6 literals with
\* and without brackets and port
DrawnHosts ==
    {"", "10.0.0.1:443", "internal.example", "[::1]:443", "[::1]", "::1", "[::1]x:443",
     "[fe80::1]:", "a[b]:1", ":443"}

InitSniffer ==
    /\ bIn \in [h : DrawnSniffers, clientHello : DrawnClientHellos,
                roHost : DrawnHosts]
    /\ bOut = Nil
    /\ InitOthersIdle

\* the protocols the upstream peer can select: one of those offered, or none
PeerProtos(offered) == Range(offered) \cup {""}

CallTerminateTLS ==
    /\ bOut = Nil
    /\ \E upOK \in BOOLEAN, commonName \in {"", "peer.example"} :
           \E csProto \in PeerProtos(upstreamNextProtos(bIn.h, bIn.clientHello)) :
               bOut' = terminateTLS(bIn.h, bIn.clientHello, bIn.roHost,
                                    upOK, csProto, commonName)
    /\ UNCHANGED <<threads, bIn, lru, now, lastOp, run, globalCache, onceDone, file, cfg, last, nops, everSet>>

NextSniffer == CallTerminateTLS

SpecSniffer == InitSniffer /\ [][NextSniffer]_vars

\* C23: when the upstream connection came from the fingerprinted engine, the
\* host is the ClientHello server name or else the recorded host (without its
\* port), and the ALPN list offered downstream is the configured
\* NegotiatedProtocol or else the protocols the client offered; it is empty
\* only if the client offered none.
C23_FallsBackToPreTLS ==
    (bOut # Nil /\ bOut.err = "" /\ bOut.utls) =>
        /\ bOut.host = stripPort(IF bIn.clientHello.ServerName # ""
                                 THEN bIn.clientHello.ServerName ELSE bIn.roHost)
        /\ IF bIn.h.NegotiatedProtocol # ""
           THEN bOut.nextProtos = <<bIn.h.NegotiatedProtocol>>
           ELSE /\ Range(bOut.nextProtos) \subseteq Range(bIn.clientHello.SupportedProtos)
                /\ (bIn.clientHello.SupportedProtos # <<>> => bOut.nextProtos # <<>>)


(***************************************************************************)
(* SpecConcurrent: one LRUCache shared by goroutines that call Get and Set *)
(* concurrently.  c.mu is an RWMutex: the read lock is held by every       *)
(* goroutine at "rlocked" or "missed"; a write-locked section (Set's body, *)
(* the Remove of Get) runs in one step, and only while no read lock is     *)
(* held.  A step of Get holds one access to the entries, the clock or a    *)
(* counter:                                                                *)
(*   idle     -RLock, c.cache.Get->          rlocked  (seen miss or found) *)
(*   rlocked  -TTL test, time.Since->        rlocked  (seen hit or expired)*)
(*   rlocked  -counter, return->             idle     (miss or hit)        *)
(*   rlocked  -RUnlock->                     unlocked (expired)            *)
(*   unlocked -Lock, Remove, Unlock->        removed                       *)
(*   removed  -RLock, misses.Add->           missed                        *)
(*   missed   -evictions.Add, return->       idle                          *)
(***************************************************************************)
MaxGoCalls == 3

ConcKeys == {"a", "b"}

\* a goroutine inside no call.  Inside Get, spec and at are the spec and the
\* createdAt of the entry the lookup found.
IdleThread == [pc |-> "idle", op |-> "none", key |-> "", spec |-> Nil, seen |-> "",
               at |-> 0, call |-> 0, raced |-> {}]

InitConcurrent ==
    /\ \E c \in DrawnCacheConfigs : lru = NewLRUCache(c, 0)
    /\ threads = [t \in Goroutines |-> IdleThread]
    /\ run = [departed |-> 0]
    /\ now = 0 /\ nops = 0
    /\ lastOp = Nil /\ bIn = Nil /\ bOut = Nil
    /\ globalCache = Nil /\ onceDone = FALSE
    /\ file = Nil /\ cfg = Nil /\ last = Nil /\ everSet = {}

\* the goroutines inside c.mu.RLock() ... c.mu.RUnlock()
ReadersHeld == {t \in Goroutines : threads[t].pc \in {"rlocked", "missed"}}

\* Get up to its lookup: the Enabled test, RLock, c.cache.Get
LRUCacheGetLookup(t, k) ==
    /\ threads[t].pc = "idle"
    /\ nops < MaxGoCalls /\ nops' = nops + 1
    /\ IF ~lru.config.Enabled
       THEN /\ threads' = [threads EXCEPT ![t] =
                             [IdleThread EXCEPT !.op = "Get", !.key = k,
                                                !.seen = "disabled", !.call = nops + 1]]
            /\ lru' = lru
       ELSE \E g \in {lruGet(lru.entries, k)} :
            /\ threads' = [threads EXCEPT ![t] =
                             [pc |-> "rlocked", op |-> "Get", key |-> k,
                              spec |-> IF g.ok THEN g.entry.spec ELSE Nil,
                              seen |-> IF g.ok THEN "found" ELSE "miss",
                              at |-> IF g.ok THEN g.entry.createdAt ELSE 0,
                              call |-> nops + 1, raced |-> {}]]
            /\ lru' = [lru EXCEPT !.entries = IF g.ok THEN g.entries ELSE @]
    /\ UNCHANGED <<bIn, bOut, now, lastOp, run, globalCache, onceDone, file, cfg, last,
                   everSet>>

\* the TTL test of the entry found: c.config.TTL > 0 and the reading of the
\* clock in time.Since(entry.createdAt)
LRUCacheGetTTL(t) ==
    /\ threads[t].pc = "rlocked"
    /\ threads[t].seen = "found"
    /\ threads' = [threads EXCEPT ![t].seen =
                      IF lru.config.TTL > 0 /\ now - threads[t].at > lru.config.TTL
                      THEN "expired" ELSE "hit"]
    /\ UNCHANGED <<bIn, bOut, lru, now, lastOp, run, globalCache, onceDone, file, cfg,
                   last, nops, everSet>>

\* the miss branch and the hit branch: one counter, the deferred RUnlock, return
LRUCacheGetReturn(t) ==
    /\ threads[t].pc = "rlocked"
    /\ threads[t].seen \in {"miss", "hit"}
    /\ \E m \in {lru.config.MetricsEnabled}, hit \in {threads[t].seen = "hit"} :
         lru' = [lru EXCEPT !.hits = IF m /\ hit THEN @ + 1 ELSE @,
                            !.misses = IF m /\ ~hit THEN @ + 1 ELSE @]
    /\ threads' = [threads EXCEPT ![t].pc = "idle"]
    /\ UNCHANGED <<bIn, bOut, now, lastOp, run, globalCache, onceDone, file, cfg, last,
                   nops, everSet>>

\* the expired branch: c.mu.RUnlock()
LRUCacheGetRUnlock(t) ==
    /\ threads[t].pc = "rlocked"
    /\ threads[t].seen = "expired"
    /\ threads' = [threads EXCEPT ![t].pc = "unlocked"]
    /\ UNCHANGED <<bIn, bOut, lru, now, lastOp, run, globalCache, onceDone, file, cfg,
                   last, nops, everSet>>

\* the expired branch: c.mu.Lock(); c.cache.Remove(key); c.mu.Unlock()
LRUCacheGetRemove(t) ==
    /\ threads[t].pc = "unlocked"
    /\ ReadersHeld = {}
    /\ \E k \in {threads[t].key} :
         /\ lru' = [lru EXCEPT !.entries = lruRemove(@, k)]
         /\ run' = [run EXCEPT !.departed =
                        IF IndexOfKey(lru.entries, k) # 0 THEN @ + 1 ELSE @]
    /\ threads' = [threads EXCEPT ![t].pc = "removed"]
    /\ UNCHANGED <<bIn, bOut, now, lastOp, globalCache, onceDone, file, cfg, last, nops,
                   everSet>>

\* the expired branch: c.mu.RLock() and, with metrics, c.misses.Add(1);
\* without metrics the call returns nil, false here
LRUCacheGetCountMiss(t) ==
    /\ threads[t].pc = "removed"
    /\ lru' = expiredCountMiss(lru)
    /\ threads' = [threads EXCEPT ![t].pc = IF lru.config.MetricsEnabled
                                            THEN "missed" ELSE "idle",
                                  ![t].spec = Nil]
    /\ UNCHANGED <<bIn, bOut, now, lastOp, run, globalCache, onceDone, file, cfg, last,
                   nops, everSet>>

\* the expired branch: c.evictions.Add(1), return nil, false
LRUCacheGetCountEviction(t) ==
    /\ threads[t].pc = "missed"
    /\ lru' = expiredCountEviction(lru)
    /\ threads' = [threads EXCEPT ![t].pc = "idle"]
    /\ UNCHANGED <<bIn, bOut, now, lastOp, run, globalCache, onceDone, file, cfg, last,
                   nops, everSet>>

\* the calls of Get(k) that are past their RUnlock and have not returned
PastRUnlock(t, k) ==
    {threads[u].call : u \in {v \in Goroutines \ {t} :
                                  /\ threads[v].pc \in {"unlocked", "removed", "missed"}
                                  /\ threads[v].key = k}}

\* Set, whole: its body runs under c.mu.Lock()
LRUCacheSetCall(t, k, s) ==
    /\ threads[t].pc = "idle"
    /\ nops < MaxGoCalls /\ nops' = nops + 1
    /\ (lru.config.Enabled /\ s # Nil) => ReadersHeld = {}
    /\ lru' = LRUCacheSet(lru, k, s, now)
    /\ run' = [run EXCEPT !.departed =
                   IF lru.config.Enabled /\ s # Nil
                      /\ lruAdd(lru.entries, k, s, now, lru.config.MaxSize).evicted
                   THEN @ + 1 ELSE @]
    /\ threads' = [threads EXCEPT ![t] =
                     [IdleThread EXCEPT !.op = "Set", !.key = k, !.spec = s,
                                        !.call = nops + 1,
                                        !.seen = IF lru.config.Enabled /\ s # Nil
                                                 THEN "stored" ELSE "ignored",
                                        !.raced = PastRUnlock(t, k)]]
    /\ UNCHANGED <<bIn, bOut, now, lastOp, globalCache, onceDone, file, cfg, last,
                   everSet>>

ClockTick ==
    /\ now < MaxNow
    /\ now' = now + 1
    /\ UNCHANGED <<bIn, bOut, lru, lastOp, run, globalCache, onceDone, file, cfg, last,
                   nops, everSet, threads>>

NextConcurrent ==
    \/ \E t \in Goroutines, k \in ConcKeys : LRUCacheGetLookup(t, k)
    \/ \E t \in Goroutines : LRUCacheGetTTL(t)
    \/ \E t \in Goroutines : LRUCacheGetReturn(t)
    \/ \E t \in Goroutines : LRUCacheGetRUnlock(t)
    \/ \E t \in Goroutines : LRUCacheGetRemove(t)
    \/ \E t \in Goroutines : LRUCacheGetCountMiss(t)
    \/ \E t \in Goroutines : LRUCacheGetCountEviction(t)
    \/ \E t \in Goroutines, k \in ConcKeys, s \in {SpecA, SpecB, Nil} :
           LRUCacheSetCall(t, k, s)
    \/ ClockTick

SpecConcurrent == InitConcurrent /\ [][NextConcurrent]_vars

\* t's last call was a Get(k) that found k expired, has returned, and u's last
\* call, a Set(k, s) that stored s, ran after that Get's RUnlock and before its
\* return
ExpiredGetRacedSet(t, u) ==
    /\ t # u
    /\ threads[t].pc = "idle" /\ threads[t].op = "Get" /\ threads[t].seen = "expired"
    /\ threads[u].pc = "idle" /\ threads[u].op = "Set" /\ threads[u].seen = "stored"
    /\ threads[u].key = threads[t].key
    /\ threads[t].call \in threads[u].raced

\* C26: when a Get(k) that observed an expired entry and a concurrent
\* Set(k, fresh) have both completed, the cache holds the fresh spec for k.
C26_GetKeepsFreshEntry ==
    \A t, u \in Goroutines :
        ExpiredGetRacedSet(t, u) =>
            /\ IndexOfKey(lru.entries, threads[u].key) # 0
            /\ EntryOf(lru, threads[u].key).spec = threads[u].spec

Quiescent == \A t \in Goroutines : threads[t].pc = "idle"

\* C29: with metrics enabled, whenever no call is in progress the evictions
\* counter equals the number of entries that left the cache through capacity
\* eviction or TTL expiry.
C29_EvictionsCountDepartures ==
    (Quiescent /\ Counted(lru)) => lru.evictions = run.departed

(***************************************************************************)
(* SpecGlobal: goroutines calling InitGlobalCache and GetGlobalCache       *)
(* concurrently.  The steps are the accesses to the package variable:      *)
(*   InitGlobalCache: NewLRUCache (local), then the assignment under       *)
(*                    globalCacheMu.Lock();                                *)
(*   GetGlobalCache:  globalCacheOnce.Do, which runs NewLRUCache and then  *)
(*                    the assignment while other callers of Do wait, then  *)
(*                    the read under RLock.                                *)
(* The assignment inside once.Do is made without globalCacheMu; both       *)
(* racing writers store a *LRUCache, so the variable holds one of the two  *)
(* values, which is what the two orders of the steps give.  The clock      *)
(* moves on at every NewLRUCache, so two caches are the same value only    *)
(* when they are the same object.                                          *)
(***************************************************************************)
IdleCaller == [pc |-> "idle", op |-> "none", cache |-> Nil, expected |-> Nil]

\* run: the cache of the last completed InitGlobalCache, the cache built by
\* once.Do, how many times once.Do built one, and whether that replaced a
\* cache already installed by InitGlobalCache
NoGlobalHistory == [lastInit |-> Nil, lazy |-> Nil, defaults |-> 0, replaced |-> FALSE]

InitGlobal ==
    /\ globalCache = Nil /\ onceDone = FALSE
    /\ threads = [t \in Goroutines |-> IdleCaller]
    /\ run = NoGlobalHistory
    /\ now = 0 /\ nops = 0
    /\ lru = Nil /\ lastOp = Nil /\ bIn = Nil /\ bOut = Nil
    /\ file = Nil /\ cfg = Nil /\ last = Nil /\ everSet = {}

\* InitGlobalCache up to the lock: cache, err := NewLRUCache(config)
InitGlobalCacheBuild(t, config) ==
    /\ threads[t].pc = "idle"
    /\ nops < MaxGoCalls /\ nops' = nops + 1
    /\ threads' = [threads EXCEPT ![t] =
                     [IdleCaller EXCEPT !.pc = "built", !.op = "Init",
                                        !.cache = InitGlobalCache(config, now)]]
    /\ now' = now + 1
    /\ UNCHANGED <<bIn, bOut, lru, lastOp, run, globalCache, onceDone, file, cfg, last,
                   everSet>>

\* globalCacheMu.Lock(); globalCache = cache; globalCacheMu.Unlock(); return nil
InitGlobalCacheInstall(t) ==
    /\ threads[t].pc = "built"
    /\ globalCache' = threads[t].cache
    /\ run' = [run EXCEPT !.lastInit = threads[t].cache]
    /\ threads' = [threads EXCEPT ![t].pc = "idle"]
    /\ UNCHANGED <<bIn, bOut, lru, now, lastOp, onceDone, file, cfg, last, nops, everSet>>

\* globalCacheOnce.Do(...), which waits while another goroutine is inside
\* it: once it has run it returns at once; otherwise the closure starts with
\* cache, _ := NewLRUCache(DefaultCacheConfig())
GetGlobalCacheOnce(t) ==
    /\ threads[t].pc = "idle"
    /\ \A u \in Goroutines : threads[u].pc # "building"
    /\ nops < MaxGoCalls /\ nops' = nops + 1
    /\ \E r \in {GetGlobalCache(globalCache, onceDone, now)} :
         threads' = [threads EXCEPT ![t] =
                        IF onceDone THEN [IdleCaller EXCEPT !.pc = "once", !.op = "Get"]
                        ELSE [IdleCaller EXCEPT !.pc = "building", !.op = "Get",
                                                !.cache = r.cache]]
    /\ now' = IF onceDone THEN now ELSE now + 1
    /\ UNCHANGED <<bIn, bOut, lru, lastOp, run, globalCache, onceDone, file, cfg, last,
                   everSet>>

\* the closure of globalCacheOnce.Do: globalCache = cache, stored without
\* globalCacheMu, and the return of Do
GetGlobalCacheOnceStore(t) ==
    /\ threads[t].pc = "building"
    /\ globalCache' = threads[t].cache
    /\ onceDone' = TRUE
    /\ run' = [run EXCEPT !.lazy = threads[t].cache, !.defaults = @ + 1,
                          !.replaced = @ \/ globalCache # Nil]
    /\ threads' = [threads EXCEPT ![t].pc = "once", ![t].cache = Nil]
    /\ UNCHANGED <<bIn, bOut, lru, now, lastOp, file, cfg, last, nops, everSet>>

\* globalCacheMu.RLock(); return globalCache
GetGlobalCacheRead(t) ==
    /\ threads[t].pc = "once"
    /\ threads' = [threads EXCEPT ![t].pc = "idle", ![t].cache = globalCache,
                                  ![t].expected = run.lastInit]
    /\ UNCHANGED <<bIn, bOut, lru, now, lastOp, run, globalCache, onceDone, file, cfg,
                   last, nops, everSet>>

NextGlobal ==
    \/ \E t \in Goroutines, c \in DrawnGlobalConfigs : InitGlobalCacheBuild(t, c)
    \/ \E t \in Goroutines : InitGlobalCacheInstall(t)
    \/ \E t \in Goroutines : GetGlobalCacheOnce(t)
    \/ \E t \in Goroutines : GetGlobalCacheOnceStore(t)
    \/ \E t \in Goroutines : GetGlobalCacheRead(t)

SpecGlobal == InitGlobal /\ [][NextGlobal]_vars

\* C28: a GetGlobalCache returns the cache installed by the InitGlobalCache
\* that completed last before its read, or the lazily built default when none
\* has completed; the default is built at most once and never replaces a cache
\* that InitGlobalCache installed.
C28_GlobalCacheIsLatestInit ==
    /\ \A t \in Goroutines :
         (threads[t].pc = "idle" /\ threads[t].op = "Get") =>
             threads[t].cache = IF threads[t].expected # Nil
                                THEN threads[t].expected
                                ELSE run.lazy
    /\ run.defaults <= 1
    /\ ~run.replaced

(***************************************************************************)
(* SpecOwnership: which ClientHelloSpec object each upgrade hands to       *)
(* ApplyPreset.  Two goroutines call fingerprint.UpgradeConnWithFingerprint *)
(* step by step, so that two upgrades can be in their handshakes together. *)
(* The address of the spec a call selected is in its frame, the addresses  *)
(* the cache holds are in its entries.                                     *)
(***************************************************************************)
OwnConfigs ==
    {DialerConfig(f, j, "", "example.com", <<>>) : f \in {"", SpecPath}, j \in {"", GoodJA3}}

InitOwnership ==
    /\ file \in {FileOf("peet", DescV1, 0), FileOf("custom", DescV1, 0)}
    /\ threads = [t \in Goroutines |-> NoCall]
    /\ lru = <<>> /\ globalCache = 0 /\ onceDone = FALSE
    /\ bOut = 0
    /\ now = 0 /\ nops = 0 /\ last = Nil
    /\ bIn = Nil /\ lastOp = Nil /\ run = Nil /\ cfg = Nil /\ everSet = {}

NextOwnership ==
    \/ \E t \in Goroutines, c \in OwnConfigs, d \in {"none", "future"} : FpUpgrade(t, c, d)
    \/ \E t \in Goroutines : DeadlinePasses(t)
    \/ \E t \in Goroutines, fails \in BOOLEAN : SetDeadline(t, fails)
    \/ \E t \in Goroutines : Select(t)
    \/ \E t \in Goroutines : ParseStat(t)
    \/ \E t \in Goroutines : ParseOnce(t)
    \/ \E t \in Goroutines : ParseOnceStore(t)
    \/ \E t \in Goroutines : ParseGetGlobalCache(t)
    \/ \E t \in Goroutines : ParseCacheGet(t)
    \/ \E t \in Goroutines : ParseCacheMiss(t)
    \/ \E t \in Goroutines : ParseCacheTTL(t)
    \/ \E t \in Goroutines : ParseCacheHit(t)
    \/ \E t \in Goroutines : ParseRead(t)
    \/ \E t \in Goroutines : ParseCacheSet(t)
    \/ \E t \in Goroutines : LoadSpecFile(t)
    \/ \E t \in Goroutines, fails \in BOOLEAN : ApplyPreset(t, fails)
    \/ \E t \in Goroutines, fails \in BOOLEAN : Handshake(t, fails)

SpecOwnership == InitOwnership /\ [][NextOwnership]_vars

\* the addresses of the specs the global cache holds
CachedAddrs ==
    IF globalCache = 0 THEN {}
    ELSE {lru[globalCache].entries[i].spec.addr :
              i \in 1..Len(lru[globalCache].entries)}

\* the upgrade of t handed a spec to its engine and is in its handshake
HoldsSpec(t) == threads[t].pc = "handshaking" /\ threads[t].addr # 0

\* the upgrade that returned last returned a connection whose engine was
\* handed a spec
ReturnedWithSpec == last # Nil /\ last.err = "" /\ last.addr # 0

\* C27: the spec object an upgrade hands to ApplyPreset is neither an object
\* the cache holds nor the object another upgrade handed to its engine.
C27_HandshakeOwnsItsSpec ==
    /\ \A t \in Goroutines :
           HoldsSpec(t) =>
               /\ threads[t].addr \notin CachedAddrs
               /\ \A u \in Goroutines \ {t} :
                      HoldsSpec(u) => threads[u].addr # threads[t].addr
               /\ ReturnedWithSpec => last.addr # threads[t].addr
    /\ ReturnedWithSpec => last.addr \notin CachedAddrs

====
